---- MODULE Spec2Model ----
(***************************************************************************)
(* A model of the variable-resolution and document-substitution engine of  *)
(* jurisdraft (src/unnamed/part_000): the DOCX quote-repair chain          *)
(* (buildTextMap, findQuotedVariablesWithPositions, findNodeAtIndex,       *)
(* removeCharAtOffset, repairXmlContent), the key normaliser and the       *)
(* substitution step of /api/fill-docx.                                    *)
(*                                                                         *)
(* A text is a sequence of characters, a character is a one-element        *)
(* string.  A document part is the sequence of its <w:t> runs in document  *)
(* order; run i of the model is the i-th element returned by               *)
(* getElementsByTagNameNS.  Character indices are 0-based as in the code;  *)
(* TLA+ sequences are 1-based, so text[i + 1] is the code's text[i].       *)
(***************************************************************************)
EXTENDS Integers, Sequences, FiniteSets, TLC

\* ------------------------------------------------------------------------
\* Characters
\* ------------------------------------------------------------------------
DQ == "\""
LDQ == "u201C"
RDQ == "u201D"
\* the character class of the pattern's quote groups: ", U+201C, U+201D
QuoteChars == {DQ, LDQ, RDQ}
LowerChars == {"a", "b"}
UpperChars == {"A", "B"}
DigitChars == {"0", "1"}
\* the character class [A-Za-z]
LetterChars == LowerChars \cup UpperChars
\* the character class [A-Za-z0-9_]
IdChars == LetterChars \cup DigitChars \cup {"_"}

\* the letters a-z and A-Z
LowerLetters == <<"a", "b", "c", "d", "e", "f", "g", "h", "i", "j", "k", "l", "m",
                 "n", "o", "p", "q", "r", "s", "t", "u", "v", "w", "x", "y", "z">>
UpperLetters == <<"A", "B", "C", "D", "E", "F", "G", "H", "I", "J", "K", "L", "M",
                 "N", "O", "P", "Q", "R", "S", "T", "U", "V", "W", "X", "Y", "Z">>

\* String.prototype.toUpperCase on one character
toUpperCaseChar(c) ==
    IF \E i \in 1..Len(LowerLetters) : LowerLetters[i] = c
    THEN UpperLetters[CHOOSE i \in 1..Len(LowerLetters) : LowerLetters[i] = c]
    ELSE c

\* String.prototype.toUpperCase
toUpperCase(s) == [i \in 1..Len(s) |-> toUpperCaseChar(s[i])]

\* ------------------------------------------------------------------------
\* Bounds of the checked instances
\* ------------------------------------------------------------------------
\* pieces in a text that is only scanned
MaxPieces == 4
\* atoms in the text of a document part that is repaired
MaxAtoms == 3
\* cut points that fragment the text of a part into runs (runs = cuts + 1)
MaxCuts == 1
\* atoms a template of a fill request is made of
MaxFillAtoms == 2
\* fields in the jsonData of a fill request
MaxFields == 2
\* fields in the object handed to the normalizer alone
MaxNormFields == 2
\* rows in the jurisdiction rule table
MaxRules == 2
\* pieces the text of an amount is made of
MaxAmountPieces == 2
\* requests that call loadCourtData
MaxRequests == 3
\* the largest maxRetries handed to fetchWithRetry
MaxAttempts == 7
\* pieces the plaintiff's name is made of
MaxNamePieces == 2
\* pieces the JSON text of a request is made of
MaxJsonPieces == 4
\* fill-pdf and auto-fill-pdf requests in flight together
MaxPdfRequests == 2

\* ------------------------------------------------------------------------
\* Sequence helpers
\* ------------------------------------------------------------------------
RECURSIVE Flatten(_)
Flatten(ss) == IF ss = <<>> THEN <<>> ELSE Head(ss) \o Flatten(Tail(ss))

RECURSIVE SumLen(_)
SumLen(ss) == IF ss = <<>> THEN 0 ELSE Len(Head(ss)) + SumLen(Tail(ss))

\* ------------------------------------------------------------------------
\* VariablePatternMatcher: findQuotedVariablesWithPositions
\* ------------------------------------------------------------------------
\* [A-Za-z0-9_]* , greedy, from 0-based position p: the first position after
\* the identifier characters
RECURSIVE idEnd(_, _)
idEnd(t, p) == IF p < Len(t) /\ t[p + 1] \in IdChars THEN idEnd(t, p + 1) ELSE p

\* the pattern without its closing quote group
matchAt_NoCloseQuote(t, p) ==
    IF p + 4 < Len(t) /\ t[p + 1] \in QuoteChars /\ t[p + 2] = "["
       /\ t[p + 3] \in LetterChars
    THEN LET e == idEnd(t, p + 3)
         IN  IF e + 1 < Len(t) /\ t[e + 1] = "]" THEN e + 1 ELSE -1
    ELSE -1

\* One attempt of the pattern at 0-based position p: the 0-based index of the
\* close quote, or -1 when the pattern does not match there.  The greedy
\* identifier never has to give a character back: what follows it must be ']',
\* which is no identifier character.
matchAt(t, p) ==
    IF p + 4 < Len(t) /\ t[p + 1] \in QuoteChars /\ t[p + 2] = "["
       /\ t[p + 3] \in LetterChars
    THEN LET e == idEnd(t, p + 3)
         IN  IF e + 1 < Len(t) /\ t[e + 1] = "]" /\ t[e + 2] \in QuoteChars
             THEN e + 1
             ELSE -1
    ELSE -1

\* the match object with the name as written and the close quote taken for the
\* end of the match
matchRecord_AsWritten(t, p, c) ==
    [ varName        |-> SubSeq(t, p + 3, c - 1),
      fullMatch      |-> SubSeq(t, p + 1, c + 1),
      openQuoteIndex |-> p,
      closeQuoteIndex |-> p + 1 + 1 + Len(SubSeq(t, p + 3, c - 1)) + 1 + 1,
      openQuoteChar  |-> t[p + 1],
      closeQuoteChar |-> t[c + 1] ]

\* the match object pushed for an attempt that succeeded at p with close quote c
matchRecord(t, p, c) ==
    [ varName        |-> toUpperCase(SubSeq(t, p + 3, c - 1)),
      fullMatch      |-> SubSeq(t, p + 1, c + 1),
      openQuoteIndex |-> p,
      closeQuoteIndex |-> p + 1 + 1 + Len(SubSeq(t, p + 3, c - 1)) + 1,
      openQuoteChar  |-> t[p + 1],
      closeQuoteChar |-> t[c + 1] ]

\* while ((match = pattern.exec(fullText)) !== null): exec tries lastIndex and
\* then every later position; after a match lastIndex is the end of the match
RECURSIVE execLoop(_, _, _)
execLoop(t, lastIndex, matches) ==
    IF lastIndex >= Len(t) THEN matches
    ELSE LET c == matchAt(t, lastIndex)
         IN  IF c >= 0
             THEN execLoop(t, c + 1, Append(matches, matchRecord(t, lastIndex, c)))
             ELSE execLoop(t, lastIndex + 1, matches)

findQuotedVariablesWithPositions(fullText) == execLoop(fullText, 0, <<>>)

\* ------------------------------------------------------------------------
\* TextPositionMapper and NodeMutator
\* ------------------------------------------------------------------------
\* buildTextMap taking endIndex as the index of the run's last character
RECURSIVE buildEntries_EndInclusive(_, _, _)
buildEntries_EndInclusive(nodeTexts, i, fullLen) ==
    IF i > Len(nodeTexts) THEN <<>>
    ELSE << [ node       |-> i,
              text       |-> nodeTexts[i],
              startIndex |-> fullLen,
              endIndex   |-> fullLen + Len(nodeTexts[i]) - 1 ] >>
         \o buildEntries_EndInclusive(nodeTexts, i + 1, fullLen + Len(nodeTexts[i]))

\* the loop of buildTextMap: entry i is pushed with the length of the text
\* concatenated so far as its startIndex
RECURSIVE buildEntries(_, _, _)
buildEntries(nodeTexts, i, fullLen) ==
    IF i > Len(nodeTexts) THEN <<>>
    ELSE << [ node       |-> i,
              text       |-> nodeTexts[i],
              startIndex |-> fullLen,
              endIndex   |-> fullLen + Len(nodeTexts[i]) ] >>
         \o buildEntries(nodeTexts, i + 1, fullLen + Len(nodeTexts[i]))

buildTextMap(nodeTexts) ==
    [ fullText |-> Flatten(nodeTexts), textMap |-> buildEntries(nodeTexts, 1, 0) ]

\* for (const entry of textMap): the position of the first entry whose range
\* holds charIndex, 0 for null
RECURSIVE findEntryFrom(_, _, _)
findEntryFrom(map, charIndex, i) ==
    IF i > Len(map) THEN 0
    ELSE IF charIndex >= map[i].startIndex /\ charIndex < map[i].endIndex THEN i
    ELSE findEntryFrom(map, charIndex, i + 1)

\* findNodeAtIndex with a local offset counted from one
findNodeAtIndex_OneBased(map, charIndex) ==
    LET e == findEntryFrom(map, charIndex, 1)
    IN  IF e = 0 THEN [ found |-> FALSE, node |-> 0, localOffset |-> 0, entry |-> 0 ]
        ELSE [ found       |-> TRUE,
               node        |-> map[e].node,
               localOffset |-> charIndex - map[e].startIndex + 1,
               entry       |-> e ]

findNodeAtIndex(map, charIndex) ==
    LET e == findEntryFrom(map, charIndex, 1)
    IN  IF e = 0 THEN [ found |-> FALSE, node |-> 0, localOffset |-> 0, entry |-> 0 ]
        ELSE [ found       |-> TRUE,
               node        |-> map[e].node,
               localOffset |-> charIndex - map[e].startIndex,
               entry       |-> e ]

\* removeCharAtOffset cutting one character too many
removeCharAtOffset_TwoChars(text, localOffset) ==
    IF localOffset >= 0 /\ localOffset < Len(text)
    THEN SubSeq(text, 1, localOffset) \o SubSeq(text, localOffset + 3, Len(text))
    ELSE text

\* removeCharAtOffset with its bounds test inverted: it never removes anything
removeCharAtOffset_Never(text, localOffset) ==
    IF localOffset < 0 \/ localOffset >= Len(text)
    THEN SubSeq(text, 1, localOffset) \o SubSeq(text, localOffset + 2, Len(text))
    ELSE text

\* the new textContent of a node whose textContent is text
removeCharAtOffset(text, localOffset) ==
    IF localOffset >= 0 /\ localOffset < Len(text)
    THEN SubSeq(text, 1, localOffset) \o SubSeq(text, localOffset + 2, Len(text))
    ELSE text

\* the comparator with its operands exchanged: an ascending sort
compareMatches_Ascending(a, b) == a.closeQuoteIndex - b.closeQuoteIndex

\* the comparator of the sort: a positive value puts a after b
compareMatches(a, b) == b.closeQuoteIndex - a.closeQuoteIndex

RECURSIVE insertMatch(_, _)
insertMatch(m, sorted) ==
    IF sorted = <<>> THEN <<m>>
    ELSE IF compareMatches(Head(sorted), m) > 0 THEN <<m>> \o sorted
    ELSE <<Head(sorted)>> \o insertMatch(m, Tail(sorted))

\* the matches processed in the order the matcher found them
sortMatches_Unsorted(ms) == ms

\* [...matches].sort(comparator): Array.prototype.sort is stable
RECURSIVE sortMatches(_)
sortMatches(ms) ==
    IF ms = <<>> THEN <<>>
    ELSE insertMatch(ms[Len(ms)], sortMatches(SubSeq(ms, 1, Len(ms) - 1)))

\* removeQuote without the update of the map entry
removeQuote_StaleEntry(st, charIndex) ==
    LET hit == findNodeAtIndex(st.textMap, charIndex)
    IN  IF hit.found
        THEN [ nodes   |-> [st.nodes EXCEPT ![hit.node] =
                               removeCharAtOffset(st.nodes[hit.node], hit.localOffset)],
               textMap |-> st.textMap ]
        ELSE st

\* One deletion of the loop body: findNodeAtIndex on the map, removeCharAtOffset
\* on the node it names, and the entry's text set to the node's new textContent.
\* st is [nodes, textMap]; nothing changes when findNodeAtIndex returns null.
removeQuote(st, charIndex) ==
    LET hit == findNodeAtIndex(st.textMap, charIndex)
    IN  IF hit.found
        THEN LET newText == removeCharAtOffset(st.nodes[hit.node], hit.localOffset)
             IN  [ nodes   |-> [st.nodes EXCEPT ![hit.node] = newText],
                   textMap |-> [st.textMap EXCEPT ![hit.entry].text = newText] ]
        ELSE st

\* ------------------------------------------------------------------------
\* State
\* ------------------------------------------------------------------------
VARIABLES
    pc,             \* position in repairXmlContent: start, close, open, serialize, done;
                    \* in scanXmlForVariables: scan, scanned;
                    \* of a call of normalizeDocxData: normalize, normalized;
                    \* of a call of determineCourt: court, determined, reinvoked;
                    \* of a run of processDynamicVariables: pipeline, pipelined;
                    \* of concurrent calls of loadCourtData: load;
                    \* of a fill request: request, filled, previewed
    pass,           \* 1 for the repair of a template, 2 for a repair of its output
    firstContent,   \* the runs of the part handed to the first repair
    xmlContent,     \* the runs of the part handed to the current repair
    nodes,          \* textContent of every <w:t> node of the parsed DOM
    fullText,       \* buildTextMap's fullText
    textMap,        \* buildTextMap's textMap
    matches,        \* the matches in the order the matcher found them
    sortedMatches,  \* the matches in processing order
    mi,             \* position of the loop in sortedMatches
    variables,      \* the Set of variable names
    repairedXml,    \* the runs of the returned part
    deleted,        \* history: the deletions made in this repair, in order
    oracleNodes,    \* history: the runs under the rebuild-the-map-every-time oracle
    data,           \* the entries of a request's jsonData, in insertion order
    normalizedData, \* the object handed to doc.render
    rendered,       \* the outcome of doc.render: status and the text of the part
    courtFiles,     \* the rows of data/Jurisdiction_Rules.csv and data/Court_Info.csv
    jurisdictionRulesCache, \* the cached rule rows, or not set
    courtInfoCache, \* the cached court-info rows, or not set
    zipCode,        \* determineCourt's zipCode
    demandAmount,   \* determineCourt's demandAmount
    citySelection,  \* determineCourt's citySelection; null and '' are the empty text
    courtResult,    \* what determineCourt returned
    rule,           \* the place in PipelineRules of the rule that runs next
    rawData,        \* history: the data as it was handed to the pipeline
    loadPc,         \* where each request's call of loadCourtData is
    loadResult,     \* what each request's call of loadCourtData returned
    fileReads,      \* history: how often the two files were read
    cacheAssignments, \* history: how often the two caches were assigned
    maxRetries,     \* fetchWithRetry's maxRetries
    attempt,        \* fetchWithRetry's attempt
    outcome,        \* what the last fetch of fetchWithRetry ended in
    delay,          \* the delay of the wait in progress, 0 without one
    fetches,        \* history: how many requests fetchWithRetry has made
    waits,          \* history: how many waits fetchWithRetry has made
    fetchResult,    \* how fetchWithRetry ended
    body,           \* req.body of a fill request: templateName and jsonData
    response,       \* the response of a fill request
    stages,         \* history: the work a fill request has done, in order
    currentFilledPDF,     \* the stored editable PDF, or not set
    currentCourtReadyPDF, \* the stored court-ready PDF, or not set
    currentPDFName,       \* the stored file name, or not set
    pdfRequest,     \* per PDF request: its handler and its template name
    pdfPc,          \* per PDF request: idle, saving, flattening, done, failed
    pdfAnswer,      \* per PDF request: the pdfData of its response
    downloaded      \* what the last download sent

fillVars == << data, normalizedData, rendered >>

courtVars == << courtFiles, jurisdictionRulesCache, courtInfoCache, zipCode,
                demandAmount, citySelection, courtResult >>

pipeVars == << rule, rawData >>

loadVars == << loadPc, loadResult, fileReads, cacheAssignments >>

retryVars == << maxRetries, attempt, outcome, delay, fetches, waits, fetchResult >>

requestVars == << body, response, stages >>

storeVars == << currentFilledPDF, currentCourtReadyPDF, currentPDFName >>

pdfVars == << pdfRequest, pdfPc, pdfAnswer, downloaded >>

handlerVars == << requestVars, storeVars, pdfVars >>

\* the state outside the engine
extVars == << retryVars, handlerVars >>

laterVars == << courtVars, pipeVars, loadVars, extVars >>

vars == << pc, pass, firstContent, xmlContent, nodes, fullText, textMap, matches,
           sortedMatches, mi, variables, repairedXml, deleted, oracleNodes, fillVars,
           laterVars >>

\* a cache that is null
NotSet == [set |-> FALSE, rows |-> <<>>]

\* no court is asked for
NoCourt ==
    /\ courtFiles = [rules |-> <<>>, info |-> <<>>]
    /\ jurisdictionRulesCache = NotSet
    /\ courtInfoCache = NotSet
    /\ zipCode = <<>>
    /\ demandAmount = <<>>
    /\ citySelection = <<>>
    /\ courtResult = [success |-> FALSE]

\* no pipeline runs
NoPipeline ==
    /\ rule = 0
    /\ rawData = <<>>

\* no request calls loadCourtData
NoLoad ==
    /\ loadPc = <<>>
    /\ loadResult = <<>>
    /\ fileReads = 0
    /\ cacheAssignments = 0

\* a fetch that has not happened, and a call that has not ended
NoOutcome == [kind |-> "none", status |-> 0]

\* fetchWithRetry is not called
NoRetry ==
    /\ maxRetries = 0
    /\ attempt = 0
    /\ outcome = NoOutcome
    /\ delay = 0
    /\ fetches = 0
    /\ waits = 0
    /\ fetchResult = NoOutcome

NoBody == [templateName |-> <<>>, jsonData |-> [kind |-> "none"]]

NoResponse == [status |-> 0, error |-> ""]

\* no fill request is made
NoRequest ==
    /\ body = NoBody
    /\ response = NoResponse
    /\ stages = <<>>

\* a stored value that is null
NotStored == [set |-> FALSE]

\* nothing is stored
NoStore ==
    /\ currentFilledPDF = NotStored
    /\ currentCourtReadyPDF = NotStored
    /\ currentPDFName = NotStored

\* no PDF request is made
NoPdf ==
    /\ pdfRequest = <<>>
    /\ pdfPc = <<>>
    /\ pdfAnswer = <<>>
    /\ downloaded = [status |-> 0]

HandlerIdle == NoRequest /\ NoStore /\ NoPdf

ExtIdle == NoRetry /\ HandlerIdle

LaterIdle == NoCourt /\ NoPipeline /\ NoLoad /\ ExtIdle

\* ------------------------------------------------------------------------
\* The documents of the checked instance
\* ------------------------------------------------------------------------
\* a part's text is made of quote glyphs, bracket tokens, other text and
\* placeholders in curly quotes
Atoms == { <<DQ>>, <<"[", "a", "]">>, <<"x">>, <<LDQ, "[", "a", "]", RDQ>> }

AtomSeqs == UNION { [1..n -> Atoms] : n \in 0..MaxAtoms }

\* increasing cut positions in 0..len: a cut at 0 or at len gives an empty run
CutSeqs(len) ==
    UNION { { c \in [1..k -> 0..len] : \A i \in 1..(k - 1) : c[i] < c[i + 1] }
            : k \in 0..MaxCuts }

\* the runs of text t cut at the positions cuts
Fragment(t, cuts) ==
    [ i \in 1..(Len(cuts) + 1) |->
        SubSeq(t, (IF i = 1 THEN 0 ELSE cuts[i - 1]) + 1,
                  IF i > Len(cuts) THEN Len(t) ELSE cuts[i]) ]

\* ------------------------------------------------------------------------
\* repairXmlContent, one step per action
\* ------------------------------------------------------------------------
Init ==
    /\ \E as \in AtomSeqs :
         \E cuts \in CutSeqs(Len(Flatten(as))) :
            xmlContent = Fragment(Flatten(as), cuts)
    /\ firstContent = xmlContent
    /\ pc = "start"
    /\ pass = 1
    /\ nodes = xmlContent
    /\ fullText = <<>>
    /\ textMap = <<>>
    /\ matches = <<>>
    /\ sortedMatches = <<>>
    /\ mi = 0
    /\ variables = {}
    /\ repairedXml = <<>>
    /\ deleted = <<>>
    /\ oracleNodes = xmlContent
    /\ data = <<>>
    /\ normalizedData = <<>>
    /\ rendered = [status |-> "none", text |-> <<>>]
    /\ LaterIdle

\* Steps 1 to 3 and the sort: parse, build the map, find the matches; a part
\* without matches is returned as it came
Begin ==
    /\ pc = "start"
    /\ LET built == buildTextMap(nodes)
           found == findQuotedVariablesWithPositions(built.fullText)
       IN  /\ fullText' = built.fullText
           /\ textMap' = built.textMap
           /\ matches' = found
           /\ IF Len(found) = 0
              THEN /\ pc' = "done"
                   /\ repairedXml' = xmlContent
                   /\ sortedMatches' = <<>>
                   /\ mi' = 0
              ELSE /\ pc' = "close"
                   /\ repairedXml' = repairedXml
                   /\ sortedMatches' = sortMatches(found)
                   /\ mi' = 1
    /\ UNCHANGED << pass, firstContent, xmlContent, nodes, variables, deleted,
                    oracleNodes, fillVars,
                    laterVars >>

\* what the history records for a deletion at charIndex
deletion(map, ns, charIndex) ==
    LET hit == findNodeAtIndex(map, charIndex)
    IN  [ index |-> charIndex,
          found |-> hit.found,
          node  |-> hit.node,
          localOffset |-> hit.localOffset,
          char  |-> IF hit.found /\ hit.localOffset < Len(ns[hit.node])
                    THEN ns[hit.node][hit.localOffset + 1] ELSE "" ]

\* the oracle: the same deletion against a map rebuilt from the current runs
oracleStep(ns, charIndex) ==
    removeQuote([nodes |-> ns, textMap |-> buildTextMap(ns).textMap], charIndex).nodes

\* variables.add(match.varName) and the removal of the closing quote
RemoveClose ==
    /\ pc = "close"
    /\ LET match == sortedMatches[mi]
           st    == removeQuote([nodes |-> nodes, textMap |-> textMap],
                                match.closeQuoteIndex)
       IN  /\ variables' = variables \cup {match.varName}
           /\ nodes' = st.nodes
           /\ textMap' = st.textMap
           /\ deleted' = Append(deleted, deletion(textMap, nodes, match.closeQuoteIndex))
           /\ oracleNodes' = oracleStep(oracleNodes, match.closeQuoteIndex)
    /\ pc' = "open"
    /\ UNCHANGED << pass, firstContent, xmlContent, fullText, matches, sortedMatches,
                    mi, repairedXml, fillVars,
                    laterVars >>

\* the removal of the opening quote, and the loop's step to the next match
RemoveOpen ==
    /\ pc = "open"
    /\ LET match == sortedMatches[mi]
           st    == removeQuote([nodes |-> nodes, textMap |-> textMap],
                                match.openQuoteIndex)
       IN  /\ nodes' = st.nodes
           /\ textMap' = st.textMap
           /\ deleted' = Append(deleted, deletion(textMap, nodes, match.openQuoteIndex))
           /\ oracleNodes' = oracleStep(oracleNodes, match.openQuoteIndex)
    /\ IF mi < Len(sortedMatches)
       THEN mi' = mi + 1 /\ pc' = "close"
       ELSE mi' = mi /\ pc' = "serialize"
    /\ UNCHANGED << pass, firstContent, xmlContent, fullText, matches, sortedMatches,
                    variables, repairedXml, fillVars,
                    laterVars >>

\* Step 5: the DOM is serialized and returned
Serialize ==
    /\ pc = "serialize"
    /\ repairedXml' = nodes
    /\ pc' = "done"
    /\ UNCHANGED << pass, firstContent, xmlContent, nodes, fullText, textMap, matches,
                    sortedMatches, mi, variables, deleted, oracleNodes, fillVars,
                    laterVars >>

\* repairXmlContent is called again on the part it returned
RepairAgain ==
    /\ pc = "done"
    /\ pass = 1
    /\ pass' = 2
    /\ pc' = "start"
    /\ xmlContent' = repairedXml
    /\ nodes' = repairedXml
    /\ oracleNodes' = repairedXml
    /\ fullText' = <<>>
    /\ textMap' = <<>>
    /\ matches' = <<>>
    /\ sortedMatches' = <<>>
    /\ mi' = 0
    /\ variables' = {}
    /\ repairedXml' = <<>>
    /\ deleted' = <<>>
    /\ UNCHANGED << firstContent, fillVars,
                    laterVars >>

Next == Begin \/ RemoveClose \/ RemoveOpen \/ Serialize \/ RepairAgain

Spec == Init /\ [][Next]_vars

\* ------------------------------------------------------------------------
\* scanXmlForVariables: the matcher on the text of a part that is not repaired
\* ------------------------------------------------------------------------
\* the texts scanned are made of single characters and of pieces of placeholders
Pieces == { <<DQ>>, <<RDQ>>, <<"[">>, <<"]">>, <<"a">>, <<"B">>, <<"1">>, <<"_">>,
            <<LDQ, "[", "a">>, <<"]", DQ>>, <<"[", "b", "]">> }

PieceSeqs == UNION { [1..n -> Pieces] : n \in 0..MaxPieces }

InitScan ==
    /\ \E ps \in PieceSeqs : xmlContent = << Flatten(ps) >>
    /\ firstContent = xmlContent
    /\ pc = "scan"
    /\ pass = 1
    /\ nodes = xmlContent
    /\ fullText = <<>>
    /\ textMap = <<>>
    /\ matches = <<>>
    /\ sortedMatches = <<>>
    /\ mi = 0
    /\ variables = {}
    /\ repairedXml = <<>>
    /\ deleted = <<>>
    /\ oracleNodes = xmlContent
    /\ data = <<>>
    /\ normalizedData = <<>>
    /\ rendered = [status |-> "none", text |-> <<>>]
    /\ LaterIdle

\* the unique names of the matches; the sorted array made of the Set is
\* determined by the Set and is kept as the Set
ScanXml ==
    /\ pc = "scan"
    /\ LET built == buildTextMap(nodes)
           found == findQuotedVariablesWithPositions(built.fullText)
       IN  /\ fullText' = built.fullText
           /\ textMap' = built.textMap
           /\ matches' = found
           /\ variables' = { found[i].varName : i \in 1..Len(found) }
    /\ pc' = "scanned"
    /\ UNCHANGED << pass, firstContent, xmlContent, nodes, sortedMatches, mi,
                    repairedXml, deleted, oracleNodes, fillVars,
                    laterVars >>

NextScan == ScanXml

SpecScan == InitScan /\ [][NextScan]_vars

\* ------------------------------------------------------------------------
\* The field map: an object is its entries in insertion order
\* ------------------------------------------------------------------------
hasKey(obj, key) == \E i \in 1..Len(obj) : obj[i].key = key

getValue(obj, key) == obj[CHOOSE i \in 1..Len(obj) : obj[i].key = key].value

\* obj[key] = value: a key the object has keeps its place
setValue(obj, key, value) ==
    IF hasKey(obj, key)
    THEN [ i \in 1..Len(obj) |->
             IF obj[i].key = key THEN [key |-> key, value |-> value] ELSE obj[i] ]
    ELSE Append(obj, [key |-> key, value |-> value])

RECURSIVE setValues(_, _)
setValues(obj, entries) ==
    IF entries = <<>> THEN obj
    ELSE setValues(setValue(obj, Head(entries).key, Head(entries).value), Tail(entries))

\* curly double quotes become straight ones; of the characters of the model
\* no other is touched
sanitizeQuotes(value) ==
    [ i \in 1..Len(value) |-> IF value[i] \in {LDQ, RDQ} THEN DQ ELSE value[i] ]

sanitizeAllValues(d) ==
    setValues(<<>>, [ i \in 1..Len(d) |->
                        [key |-> d[i].key, value |-> sanitizeQuotes(d[i].value)] ])

\* what the pipeline writes whatever the data holds, with the values it writes
\* when the data holds none of the fields the pipeline reads; a name of the
\* pipeline is one unit of text, and so is a value it writes
DerivedDefaults ==
    << [key |-> <<"[", "IS_DEBTOR1_DL_UNKNOWN", "]">>,    value |-> <<"true">>],
       [key |-> <<"[", "IS_DEBTOR1_SS_UNKNOWN", "]">>,    value |-> <<"true">>],
       [key |-> <<"[", "COURT_MAILING_ADDRESS", "]">>,    value |-> <<"Same as street address">>],
       [key |-> <<"[", "IS_LIMITED", "]">>,               value |-> <<"false">>],
       [key |-> <<"[", "IS_UNLIMITED", "]">>,             value |-> <<"false">>],
       [key |-> <<"[", "VAR_UNLIMITED_OR_LIMITED", "]">>, value |-> <<>>],
       [key |-> <<"[", "IS_JUDGMENT_CREDITOR", "]">>,     value |-> <<"true">>],
       [key |-> <<"[", "IS_JUDGMENT_CREDITOR2", "]">>,    value |-> <<"true">>],
       [key |-> <<"[", "IS_ASSIGNEE_OF_RECORD", "]">>,    value |-> <<"false">>],
       [key |-> <<"[", "IS_ASSIGNEE_OF_RECORD2", "]">>,   value |-> <<"false">>],
       [key |-> <<"[", "IS_STAY_ORDERED", "]">>,          value |-> <<"true">>],
       [key |-> <<"[", "IS_CERTIFIED_ABSTRACT", "]">>,    value |-> <<"true">> ] >>

\* the pipeline on data that holds none of the fields it reads: the string
\* "null" becomes the empty string, then the derived fields are written
processDynamicVariables(d) ==
    setValues([ i \in 1..Len(d) |->
                  IF d[i].value = <<"n", "u", "l", "l">>
                  THEN [key |-> d[i].key, value |-> <<>>] ELSE d[i] ],
              DerivedDefaults)

\* the key without any '[' at its start and any ']' at its end
RECURSIVE stripBrackets_Repeated(_)
stripBrackets_Repeated(key) ==
    IF Len(key) >= 1 /\ key[1] = "[" /\ key[Len(key)] = "]"
    THEN stripBrackets_Repeated(SubSeq(key, 2, Len(key) - 1))
    ELSE key

\* the key without one '[' at its start and one ']' at its end, when it has both
stripBrackets(key) ==
    IF Len(key) >= 1 /\ key[1] = "[" /\ key[Len(key)] = "]"
    THEN SubSeq(key, 2, Len(key) - 1)
    ELSE key

normalizeDocxData(d) ==
    setValues(<<>>, [ i \in 1..Len(d) |->
                        [key |-> stripBrackets(d[i].key), value |-> d[i].value] ])

\* ------------------------------------------------------------------------
\* repairXmlContent and repairDocxZip as functions
\* ------------------------------------------------------------------------
\* the loop over the sorted matches from its k-th match on
RECURSIVE removeQuotes(_, _, _)
removeQuotes(st, sorted, k) ==
    IF k > Len(sorted) THEN st
    ELSE removeQuotes(removeQuote(removeQuote(st, sorted[k].closeQuoteIndex),
                                  sorted[k].openQuoteIndex),
                      sorted, k + 1)

repairXmlContent(content) ==
    LET built == buildTextMap(content)
        found == findQuotedVariablesWithPositions(built.fullText)
    IN  IF Len(found) = 0
        THEN [ repairedXml |-> content, variables |-> {} ]
        ELSE [ repairedXml |->
                 removeQuotes([nodes |-> content, textMap |-> built.textMap],
                              sortMatches(found), 1).nodes,
               variables |-> { found[i].varName : i \in 1..Len(found) } ]

\* the zip of a request holds the one part word/document.xml
repairDocxZip(zip) == repairXmlContent(zip).repairedXml

\* ------------------------------------------------------------------------
\* The substitution: Docxtemplater with the delimiters '[' and ']'
\* ------------------------------------------------------------------------
\* a nullGetter that returns the empty string
nullGetter_Blank(part) == <<>>

nullGetter(part) ==
    IF part.module = "" THEN <<"[">> \o part.value \o <<"]">>
    ELSE IF part.module = "loop" THEN <<>>
    ELSE <<"[">> \o part.value \o <<"]">>

\* the index of the first delimiter of t at or after p, Len(t) if there is none
RECURSIVE nextDelimiter(_, _)
nextDelimiter(t, p) ==
    IF p >= Len(t) \/ t[p + 1] \in {"[", "]"} THEN p ELSE nextDelimiter(t, p + 1)

\* doc.render on the text t from index p on: a tag is the text between '['
\* and the next ']', looked up in the data as it is written; a tag without a
\* value goes to the nullGetter; a delimiter without its partner is an error
RECURSIVE renderFrom(_, _, _)
renderFrom(t, p, scope) ==
    IF p >= Len(t) THEN [status |-> "ok", text |-> <<>>]
    ELSE IF t[p + 1] = "]" THEN [status |-> "error", text |-> <<>>]
    ELSE IF t[p + 1] = "["
    THEN LET e == nextDelimiter(t, p + 1)
         IN  IF e >= Len(t) \/ t[e + 1] = "["
             THEN [status |-> "error", text |-> <<>>]
             ELSE LET tag   == SubSeq(t, p + 2, e)
                      value == IF hasKey(scope, tag) THEN getValue(scope, tag)
                               ELSE nullGetter([module |-> "", value |-> tag])
                      rest  == renderFrom(t, e + 1, scope)
                  IN  IF rest.status = "ok"
                      THEN [status |-> "ok", text |-> value \o rest.text]
                      ELSE rest
    ELSE LET rest == renderFrom(t, p + 1, scope)
         IN  IF rest.status = "ok"
             THEN [status |-> "ok", text |-> << t[p + 1] >> \o rest.text]
             ELSE rest

render(zip, scope) == renderFrom(Flatten(zip), 0, scope)

\* ------------------------------------------------------------------------
\* The requests of the checked instance
\* ------------------------------------------------------------------------
\* a template is made of quote glyphs, two bracket tokens and a placeholder in
\* curly quotes
FillAtoms == { <<DQ>>, <<"[", "a", "]">>, <<"[", "b", "]">>, <<LDQ, "[", "a", "]", RDQ>> }

FillAtomSeqs == UNION { [1..n -> FillAtoms] : n \in 0..MaxFillAtoms }

\* the text in one run, and the text with every character in a run of its own
Fragmentations(t) == { << t >>, [ i \in 1..Len(t) |-> << t[i] >> ] }

FieldKeys == { <<"a">>, <<"[", "a", "]">>, <<"A">>, <<"[", "A", "]">> }

FieldValues == { <<"1">>, <<"n", "u", "l", "l">> }

\* the objects with at most MaxFields fields
FieldMaps ==
    UNION { { d \in [1..n -> [key : FieldKeys, value : FieldValues]] :
                \A i, j \in 1..n : i # j => d[i].key # d[j].key }
            : n \in 0..MaxFields }

InitFill ==
    /\ \E as \in FillAtomSeqs : xmlContent \in Fragmentations(Flatten(as))
    /\ data \in FieldMaps
    /\ firstContent = xmlContent
    /\ pc = "request"
    /\ pass = 1
    /\ nodes = xmlContent
    /\ fullText = <<>>
    /\ textMap = <<>>
    /\ matches = <<>>
    /\ sortedMatches = <<>>
    /\ mi = 0
    /\ variables = {}
    /\ repairedXml = <<>>
    /\ deleted = <<>>
    /\ oracleNodes = xmlContent
    /\ normalizedData = <<>>
    /\ rendered = [status |-> "none", text |-> <<>>]
    /\ LaterIdle

\* the field map fill-docx hands to the render
fillDocxFieldMap(d) == normalizeDocxData(processDynamicVariables(sanitizeAllValues(d)))

\* the field map preview-filled-docx hands to the render
previewFieldMap(d) == normalizeDocxData(d)

\* POST /api/fill-docx
FillDocx ==
    /\ pc = "request"
    /\ LET zip == repairDocxZip(xmlContent)
       IN  /\ normalizedData' = fillDocxFieldMap(data)
           /\ repairedXml' = zip
           /\ rendered' = render(zip, fillDocxFieldMap(data))
    /\ pc' = "filled"
    /\ UNCHANGED << pass, firstContent, xmlContent, nodes, fullText, textMap, matches,
                    sortedMatches, mi, variables, deleted, oracleNodes, data,
                    laterVars >>

\* POST /api/preview-filled-docx
PreviewFilledDocx ==
    /\ pc = "request"
    /\ LET zip == repairDocxZip(xmlContent)
       IN  /\ normalizedData' = previewFieldMap(data)
           /\ repairedXml' = zip
           /\ rendered' = render(zip, previewFieldMap(data))
    /\ pc' = "previewed"
    /\ UNCHANGED << pass, firstContent, xmlContent, nodes, fullText, textMap, matches,
                    sortedMatches, mi, variables, deleted, oracleNodes, data,
                    laterVars >>

NextFill == FillDocx \/ PreviewFilledDocx

SpecFill == InitFill /\ [][NextFill]_vars

\* ------------------------------------------------------------------------
\* normalizeDocxData on its own
\* ------------------------------------------------------------------------
\* no part is under repair
NoRepair ==
    /\ xmlContent = <<>>
    /\ firstContent = <<>>
    /\ pass = 1
    /\ nodes = <<>>
    /\ fullText = <<>>
    /\ textMap = <<>>
    /\ matches = <<>>
    /\ sortedMatches = <<>>
    /\ mi = 0
    /\ variables = {}
    /\ repairedXml = <<>>
    /\ deleted = <<>>
    /\ oracleNodes = <<>>

repairVars == << pass, firstContent, xmlContent, nodes, fullText, textMap, matches,
                 sortedMatches, mi, variables, repairedXml, deleted, oracleNodes >>

\* keys with brackets at both ends, at one end, twice at both ends, and alone
NormKeys == { <<"a">>, <<"[", "a", "]">>, <<"[", "[", "a", "]", "]">>, <<"[", "a">>,
              <<"a", "]">>, <<"[">>, <<"[", "]">> }

NormFieldMaps ==
    UNION { { d \in [1..n -> [key : NormKeys, value : FieldValues]] :
                \A i, j \in 1..n : i # j => d[i].key # d[j].key }
            : n \in 0..MaxNormFields }

InitNormalize ==
    /\ NoRepair
    /\ pc = "normalize"
    /\ data \in NormFieldMaps
    /\ normalizedData = <<>>
    /\ rendered = [status |-> "none", text |-> <<>>]
    /\ LaterIdle

NormalizeDocxData ==
    /\ pc = "normalize"
    /\ normalizedData' = normalizeDocxData(data)
    /\ pc' = "normalized"
    /\ UNCHANGED << repairVars, data, rendered , laterVars >>

NextNormalize == NormalizeDocxData

SpecNormalize == InitNormalize /\ [][NextNormalize]_vars

\* ------------------------------------------------------------------------
\* Amounts: the text of an amount and the number parseFloat makes of it
\* ------------------------------------------------------------------------
Digits == <<"0", "1", "2", "3", "4", "5", "6", "7", "8", "9">>

IsDigit(c) == \E v \in 1..Len(Digits) : Digits[v] = c

digitValue(c) == (CHOOSE v \in 1..Len(Digits) : Digits[v] = c) - 1

\* replace(/[^0-9.]/g, '')
cleanAmount(s) == SelectSeq(s, LAMBDA c : IsDigit(c) \/ c = ".")

\* the index after the digits of s that start at index p
RECURSIVE digitsEnd(_, _)
digitsEnd(s, p) == IF p < Len(s) /\ IsDigit(s[p + 1]) THEN digitsEnd(s, p + 1) ELSE p

\* parseFloat on a text of digits and dots: the longest prefix that is a
\* number, as its digits before and after the point; NaN without a digit
parseFloat(s) ==
    LET intEnd  == digitsEnd(s, 0)
        hasDot  == intEnd < Len(s) /\ s[intEnd + 1] = "."
        fracEnd == IF hasDot THEN digitsEnd(s, intEnd + 1) ELSE intEnd
        int     == SubSeq(s, 1, intEnd)
        frac    == IF hasDot THEN SubSeq(s, intEnd + 2, fracEnd) ELSE <<>>
    IN  [ nan |-> Len(int) = 0 /\ Len(frac) = 0, int |-> int, frac |-> frac ]

\* the number 0 that amount starts as
zeroAmount == [ nan |-> FALSE, int |-> <<"0">>, frac |-> <<>> ]

RECURSIVE stripLeadingZeros(_)
stripLeadingZeros(ds) ==
    IF ds # <<>> /\ Head(ds) = "0" THEN stripLeadingZeros(Tail(ds)) ELSE ds

allZeros(ds) == \A i \in 1..Len(ds) : ds[i] = "0"

\* a < b for digit texts without leading zeros
RECURSIVE digitsLess(_, _)
digitsLess(a, b) ==
    IF Len(a) # Len(b) THEN Len(a) < Len(b)
    ELSE IF a = <<>> THEN FALSE
    ELSE IF Head(a) # Head(b) THEN digitValue(Head(a)) < digitValue(Head(b))
    ELSE digitsLess(Tail(a), Tail(b))

\* the 35000 of the two classifications
LimitedCeiling == <<"3", "5", "0", "0", "0">>

\* amount > 0
greaterThanZero(n) == ~n.nan /\ (~allZeros(n.int) \/ ~allZeros(n.frac))

\* amount < 35000
atMostLimitedCeiling_Below(n) ==
    /\ ~n.nan
    /\ digitsLess(stripLeadingZeros(n.int), LimitedCeiling)

\* amount <= 35000
atMostLimitedCeiling(n) ==
    /\ ~n.nan
    /\ \/ digitsLess(stripLeadingZeros(n.int), LimitedCeiling)
       \/ stripLeadingZeros(n.int) = LimitedCeiling /\ allZeros(n.frac)

\* ------------------------------------------------------------------------
\* determineCourt
\* ------------------------------------------------------------------------
Whitespace == {" "}

RECURSIVE trimStart(_)
trimStart(s) == IF s # <<>> /\ Head(s) \in Whitespace THEN trimStart(Tail(s)) ELSE s

RECURSIVE trimEnd(_)
trimEnd(s) ==
    IF s # <<>> /\ s[Len(s)] \in Whitespace THEN trimEnd(SubSeq(s, 1, Len(s) - 1)) ELSE s

trim(s) == trimEnd(trimStart(s))

toLowerCaseChar(c) ==
    IF \E i \in 1..Len(UpperLetters) : UpperLetters[i] = c
    THEN LowerLetters[CHOOSE i \in 1..Len(UpperLetters) : UpperLetters[i] = c]
    ELSE c

toLowerCase(s) == [ i \in 1..Len(s) |-> toLowerCaseChar(s[i]) ]

\* replace(/\s+/g, ' ')
RECURSIVE collapseWhitespace(_)
collapseWhitespace(s) ==
    IF s = <<>> THEN <<>>
    ELSE IF Head(s) \in Whitespace
    THEN <<" ">> \o collapseWhitespace(trimStart(s))
    ELSE << Head(s) >> \o collapseWhitespace(Tail(s))

\* the name as it is
normalizeCourtName_Exact(name) == name

normalizeCourtName(name) == collapseWhitespace(toLowerCase(trim(name)))

\* Step 1: the case type of an amount
caseTypeOf(amountText) ==
    LET amount == IF amountText # <<>> THEN parseFloat(cleanAmount(amountText))
                  ELSE zeroAmount
    IN  IF ~amount.nan /\ greaterThanZero(amount) /\ atMostLimitedCeiling(amount)
        THEN "Limited" ELSE "Unlimited"

caseTypeLower(caseType) == IF caseType = "Limited" THEN "limited" ELSE "unlimited"

\* rows.find(pred): the index of the first row that satisfies, 0 if none does
firstIndex(rows, Pred(_)) ==
    IF \E i \in 1..Len(rows) : Pred(rows[i])
    THEN CHOOSE i \in 1..Len(rows) :
            Pred(rows[i]) /\ \A j \in 1..(i - 1) : ~Pred(rows[j])
    ELSE 0

\* the court-info lookup and the success result, as written three times
resolvedCourt(courtInfo, courtName, caseType) ==
    LET e == firstIndex(courtInfo,
                 LAMBDA row : normalizeCourtName(row.Courthouse) = normalizeCourtName(courtName))
    IN  [ success       |-> TRUE,
          courtName     |-> courtName,
          courtAddress  |-> IF e # 0 THEN courtInfo[e].Address ELSE <<>>,
          courtDistrict |-> IF e # 0 THEN courtInfo[e].District ELSE <<>>,
          caseType      |-> caseTypeLower(caseType) ]

\* every text counts as blank
isBlank_Always(text) == TRUE

\* !text || text.trim() === ''
isBlank(text) == text = <<>> \/ trim(text) = <<>>

\* the first option whatever the rows flag
defaultOptionOf_FirstOption(found, options) == options[1]

\* the court name of the first row flagged Is_Default, the first option when
\* no row is flagged
defaultOptionOf(found, options) ==
    LET d == firstIndex(found, LAMBDA row : row.Is_Default = "True")
    IN  IF d # 0 THEN found[d].CourtName ELSE options[1]

determineCourt(jurisdictionRules, courtInfo, zip, amountText, selection) ==
    LET caseType == caseTypeOf(amountText)
        found    == SelectSeq(jurisdictionRules,
                        LAMBDA row : row.ZipCode = zip /\ row.CaseType = caseType)
    IN  IF Len(found) = 0
        THEN [ success |-> FALSE, error |-> "not found in court database",
               caseType |-> caseTypeLower(caseType) ]
        ELSE IF Len(found) = 1
        THEN IF found[1].CourtName = <<>> \/ found[1].CourtName = <<"n", "a", "n">>
                \/ trim(found[1].CourtName) = <<>>
             THEN [ success |-> FALSE, error |-> "No court assigned",
                    caseType |-> caseTypeLower(caseType) ]
             ELSE resolvedCourt(courtInfo, found[1].CourtName, caseType)
        ELSE IF \E i \in 1..Len(found) : ~isBlank(found[i].Condition)
        THEN LET m == IF selection # <<>>
                      THEN firstIndex(found, LAMBDA row : row.Condition = selection)
                      ELSE 0
             IN  IF m # 0
                 THEN resolvedCourt(courtInfo, found[m].CourtName, caseType)
                 ELSE [ success |-> FALSE, needsSelection |-> TRUE, type |-> "split",
                        options |-> SelectSeq([ i \in 1..Len(found) |-> found[i].Condition ],
                                              LAMBDA c : ~isBlank(c)),
                        caseType |-> caseTypeLower(caseType) ]
        ELSE LET m == IF selection # <<>>
                      THEN firstIndex(found, LAMBDA row : row.CourtName = selection)
                      ELSE 0
                 options == [ i \in 1..Len(found) |-> found[i].CourtName ]
             IN  IF m # 0
                 THEN resolvedCourt(courtInfo, found[m].CourtName, caseType)
                 ELSE [ success |-> FALSE, needsSelection |-> TRUE, type |-> "choice",
                        options |-> options,
                        defaultOption |-> defaultOptionOf(found, options),
                        caseType |-> caseTypeLower(caseType) ]

\* loadCourtData when nothing else runs: the tables are read unless both are cached
loadedCourtData ==
    IF ~jurisdictionRulesCache.set \/ ~courtInfoCache.set
    THEN [ jurisdictionRules |-> [set |-> TRUE, rows |-> courtFiles.rules],
           courtInfo         |-> [set |-> TRUE, rows |-> courtFiles.info] ]
    ELSE [ jurisdictionRules |-> jurisdictionRulesCache, courtInfo |-> courtInfoCache ]

\* the rule rows of the checked instance: for the postal code and case type
\* asked for, rows without a Condition with every kind of court name, flagged
\* or not, and rows with a Condition; one row of the other case type, one of
\* another postal code
CourtX == <<"X">>
CourtXY == <<"X", " ", "Y">>
CourtNan == <<"n", "a", "n">>
North == <<"N">>
South == <<"S">>

RuleRows ==
    [ ZipCode : {<<"90001">>}, CaseType : {"Unlimited"},
      CourtName : {<<>>, CourtNan, CourtX, CourtXY}, Condition : {<<>>},
      Is_Default : {"True", "False"} ]
    \cup [ ZipCode : {<<"90001">>}, CaseType : {"Unlimited"},
           CourtName : {<<>>, CourtX}, Condition : {North, South},
           Is_Default : {"False"} ]
    \cup { [ ZipCode |-> <<"90001">>, CaseType |-> "Unlimited", CourtName |-> CourtNan,
             Condition |-> North, Is_Default |-> "False" ],
           [ ZipCode |-> <<"90001">>, CaseType |-> "Limited", CourtName |-> CourtX,
             Condition |-> <<>>, Is_Default |-> "False" ],
           [ ZipCode |-> <<"90002">>, CaseType |-> "Unlimited", CourtName |-> CourtXY,
             Condition |-> <<>>, Is_Default |-> "False" ] }

RuleTables == UNION { [1..n -> RuleRows] : n \in 0..MaxRules }

\* a part of an address is one unit of text
InfoX == [ Courthouse |-> <<"x">>, Address |-> <<"A1">>, District |-> <<"D1">> ]
InfoXY == [ Courthouse |-> <<"X", " ", " ", "y">>,
            Address |-> <<"A2", ",", " ", "B2", ",", " ", "C2">>, District |-> <<"D2">> ]
InfoX2 == [ Courthouse |-> <<"X">>, Address |-> <<"A3", ",", "B3">>, District |-> <<>> ]

InfoTables == { <<>>, <<InfoX, InfoX2>>, <<InfoX2, InfoX>>, <<InfoXY>> }

Selections == { <<>>, North, South, CourtX, CourtNan }

CourtAmounts == { <<>>, <<"1", "0", "0">> }

InitCourt ==
    /\ NoRepair
    /\ data = <<>>
    /\ normalizedData = <<>>
    /\ rendered = [status |-> "none", text |-> <<>>]
    /\ pc = "court"
    /\ \E rules \in RuleTables : \E info \in InfoTables :
          courtFiles = [rules |-> rules, info |-> info]
    /\ jurisdictionRulesCache = NotSet
    /\ courtInfoCache = NotSet
    /\ zipCode = <<"90001">>
    /\ demandAmount \in CourtAmounts
    /\ citySelection \in Selections
    /\ courtResult = [success |-> FALSE]
    /\ NoPipeline
    /\ NoLoad
    /\ ExtIdle

\* one call of determineCourt
DetermineCourt ==
    /\ pc = "court"
    /\ LET loaded == loadedCourtData
       IN  /\ jurisdictionRulesCache' = loaded.jurisdictionRules
           /\ courtInfoCache' = loaded.courtInfo
           /\ courtResult' = determineCourt(loaded.jurisdictionRules.rows,
                                            loaded.courtInfo.rows,
                                            zipCode, demandAmount, citySelection)
    /\ pc' = "determined"
    /\ UNCHANGED << repairVars, fillVars, courtFiles, zipCode, demandAmount, citySelection,
                    pipeVars, loadVars, extVars >>

\* the caller's second call: the same postal code and amount, and one of the
\* options of the NeedsSelection result as the selector
Reinvoke ==
    /\ pc = "determined"
    /\ ~courtResult.success
    /\ "needsSelection" \in DOMAIN courtResult
    /\ \E i \in 1..Len(courtResult.options) :
          /\ citySelection' = courtResult.options[i]
          /\ LET loaded == loadedCourtData
             IN  /\ jurisdictionRulesCache' = loaded.jurisdictionRules
                 /\ courtInfoCache' = loaded.courtInfo
                 /\ courtResult' = determineCourt(loaded.jurisdictionRules.rows,
                                                  loaded.courtInfo.rows,
                                                  zipCode, demandAmount,
                                                  courtResult.options[i])
    /\ pc' = "reinvoked"
    /\ UNCHANGED << repairVars, fillVars, courtFiles, zipCode, demandAmount,
                    pipeVars, loadVars, extVars >>

NextCourt == DetermineCourt \/ Reinvoke

SpecCourt == InitCourt /\ [][NextCourt]_vars

\* ------------------------------------------------------------------------
\* processDynamicVariables, one rule per step
\* ------------------------------------------------------------------------
\* the key of a field of the pipeline
Field(name) == <<"[", name, "]">>

\* data[key] || ''
fieldOr(d, name) == IF hasKey(d, Field(name)) THEN getValue(d, Field(name)) ELSE <<>>

\* the rules in the order of the source, each with the fields it reads and
\* the fields it writes
PipelineRules ==
    << [ rule |-> "globalSanitization", reads |-> {}, writes |-> {} ],
       [ rule |-> "last4",
         reads  |-> {"DEBTOR1_DL_LAST4", "DEBTOR1_SS_LAST4", "DEBTOR2_DL_LAST4", "DEBTOR2_SS_LAST4"},
         writes |-> {"DEBTOR1_DL_LAST4", "DEBTOR1_SS_LAST4", "DEBTOR2_DL_LAST4", "DEBTOR2_SS_LAST4"} ],
       [ rule |-> "debtorTitleCase",
         reads  |-> {"DEBTOR1_ADDRESS", "DEBTOR1_CITY"},
         writes |-> {"DEBTOR1_ADDRESS", "DEBTOR1_CITY"} ],
       [ rule |-> "firmName",
         reads  |-> {"FIRM_NAME"},
         writes |-> {"FIRM_NAME", "VAR_FIRM_FULL_NAME", "VAR_FIRM_FULL_NAME_CAPITAL"} ],
       [ rule |-> "atty1",
         reads  |-> {"ATTY_NAME", "ATTY_SBN"},
         writes |-> {"VAR_ATTY1_NAME"} ],
       [ rule |-> "atty2",
         reads  |-> {"ATTY_NAME2", "ATTY_SBN2"},
         writes |-> {"VAR_ATTY2_NAME", "VAR_CAPITAL_ATTY_NAME2"} ],
       [ rule |-> "cityStateZip",
         reads  |-> {"FIRM_CITY", "FIRM_STATE", "FIRM_ZIP"},
         writes |-> {"VAR_CITY_STATE_ZIP"} ],
       [ rule |-> "unknownFlags",
         reads  |-> {"DEBTOR1_DL_LAST4", "DEBTOR1_SS_LAST4"},
         writes |-> {"IS_DEBTOR1_DL_UNKNOWN", "IS_DEBTOR1_SS_UNKNOWN"} ],
       [ rule |-> "attyNameWithAddress",
         reads  |-> {"ATTY_NAME2", "FIRM_NAME", "FIRM_ADDRESS", "FIRM_CITY", "FIRM_STATE",
                     "FIRM_ZIP", "FIRM_PHONE"},
         writes |-> {"VAR_ATTY_NAME_WITH_ADDRESS"} ],
       [ rule |-> "attyWithSbn",
         reads  |-> {"ATTY_NAME", "ATTY_SBN", "ATTY_NAME2", "ATTY_SBN2", "ATTY_NAME3..10",
                     "ATTY_SBN3..10"},
         writes |-> {"VAR_ATTY_NAME2", "VAR_ATTY_WITH_SBN"} ],
       [ rule |-> "attyEmail",
         reads  |-> {"ATTY_EMAIL", "ATTY_EMAIL2"},
         writes |-> {"VAR_ATTY_EMAIL"} ],
       [ rule |-> "firmFullAddr",
         reads  |-> {"FIRM_NAME", "FIRM_ADDRESS", "FIRM_CITY", "FIRM_STATE", "FIRM_ZIP"},
         writes |-> {"VAR_FIRM_FULL_ADDR", "VAR_FIRM_FULL_ADDR_NO_FIRM"} ],
       [ rule |-> "defendantWithDoes",
         reads  |-> {"DEFENDANT_NAME"},
         writes |-> {"VAR_DEFENDANT_WITH_DOES"} ],
       [ rule |-> "defendantName",
         reads  |-> {"DEFENDANT_NAME"},
         writes |-> {"VAR_DEFENDANT_NAME", "VAR_DEFENDANT_NAME_ET_AL",
                     "VAR_DEFENDANT_INDIVIDUAL", "DEFENDANT_NAME_P2"} ],
       [ rule |-> "defendantNameWithAddress",
         reads  |-> {"DEFENDANT_NAME", "DEBTOR1_ADDRESS", "DEBTOR1_CITY", "DEBTOR1_STATE",
                     "DEBTOR1_ZIP"},
         writes |-> {"VAR_DEFENDANT_NAME_WITH_ADDRESS",
                     "VAR_DEFENDANT_NAME_WITH_ADDRESS_NO_INDIVIDUAL",
                     "VAR_DEFENDANT_SERVICE_ADDRESS"} ],
       [ rule |-> "courtLookup",
         reads  |-> {"DEBTOR1_ZIP", "DEMAND_AMOUNT", "JUDGMENT_TOTAL_AMOUNT",
                     "COURT_CITY_SELECTION"},
         writes |-> {"VAR_COURTHOUSE", "COURT_BRANCH_NAME", "VAR_COURT_INFO", "COURT_DISTRICT",
                     "COURT_STREET_ADDRESS", "COURT_MAILING_ADDRESS", "COURT_CITY_ZIP",
                     "NEED_COURT_SELECTION", "COURT_OPTIONS", "ZIP_NOT_FOUND"} ],
       [ rule |-> "courtMailing",
         reads  |-> {"COURT_STREET_ADDRESS", "COURT_MAILING_ADDRESS"},
         writes |-> {"COURT_MAILING_ADDRESS"} ],
       [ rule |-> "plaintiffName",
         reads  |-> {"PLAINTIFF_NAME"},
         writes |-> {"VAR_PLAINTIFF_NAME"} ],
       [ rule |-> "creditor1Name",
         reads  |-> {"PLAINTIFF_NAME", "CREDITOR_ADDRESS", "CREDITOR_CITY", "CREDITOR_STATE",
                     "CREDITOR_ZIP"},
         writes |-> {"VAR_CREDITOR1_NAME"} ],
       [ rule |-> "courtCounty",
         reads  |-> {"COURT_COUNTY"},
         writes |-> {"VAR_COURT_COUNTY"} ],
       [ rule |-> "caseName",
         reads  |-> {"PLAINTIFF_NAME", "DEFENDANT_NAME"},
         writes |-> {"VAR_CASE_NAME", "CASE_NAME2", "CASE_NAME3", "CASE_NAME4", "CASE_NAME5"} ],
       [ rule |-> "limited",
         reads  |-> {"DEMAND_AMOUNT", "JUDGMENT_TOTAL_AMOUNT"},
         writes |-> {"IS_LIMITED", "IS_UNLIMITED", "VAR_UNLIMITED_OR_LIMITED"} ],
       [ rule |-> "breachOfContract",
         reads  |-> {"RAW_IS_BREACH_OF_CONTRACT"},
         writes |-> {"IS_BREACH_OF_CONTRACT_06", "IS_NOT_COMPLEX", "IS_COMPLEX", "IS_MONETARY",
                     "IS_NON_MONETARY", "IS_NOT_CLASS_ACTION", "IS_CLASS_ACTION", "IS_REASON5"} ],
       [ rule |-> "numberOfCauses",
         reads  |-> {"NUMBER_OF_CAUSES"},
         writes |-> {"NUMBER_OF_CAUSES"} ],
       [ rule |-> "judgmentCreditor",
         reads  |-> {"PLAINTIFF_NAME", "CREDITOR1_NAME"},
         writes |-> {"IS_JUDGMENT_CREDITOR", "IS_JUDGMENT_CREDITOR2", "IS_ASSIGNEE_OF_RECORD",
                     "IS_ASSIGNEE_OF_RECORD2"} ],
       [ rule |-> "stay",
         reads  |-> {"STAY_DATE", "STAY_ENFORCEMENT_DATE"},
         writes |-> {"IS_STAY_ORDERED"} ],
       [ rule |-> "certifiedAbstract",
         reads  |-> {},
         writes |-> {"IS_CERTIFIED_ABSTRACT"} ],
       [ rule |-> "caseNumberP2",
         reads  |-> {"CASE_NUMBER"},
         writes |-> {"CASE_NUMBER_P2"} ] >>

\* the place of a rule in the order
ruleIndex(name) == CHOOSE i \in 1..Len(PipelineRules) : PipelineRules[i].rule = name

\* every "null" string becomes the empty string
globalSanitization(d) ==
    [ i \in 1..Len(d) |->
        IF d[i].value = <<"n", "u", "l", "l">> THEN [key |-> d[i].key, value |-> <<>>]
        ELSE d[i] ]

\* text.split(',')
RECURSIVE split(_)
split(text) ==
    IF \E i \in 1..Len(text) : text[i] = ","
    THEN LET i == CHOOSE k \in 1..Len(text) :
                     text[k] = "," /\ \A j \in 1..(k - 1) : text[j] # ","
         IN  << SubSeq(text, 1, i - 1) >> \o split(SubSeq(text, i + 1, Len(text)))
    ELSE << text >>

\* parts.join(', ')
RECURSIVE join(_)
join(parts) ==
    IF parts = <<>> THEN <<>>
    ELSE IF Len(parts) = 1 THEN parts[1]
    ELSE parts[1] \o <<",", " ">> \o join(Tail(parts))

\* an array as the value of a field: its elements, each after a mark
RECURSIVE arrayValue(_)
arrayValue(options) ==
    IF options = <<>> THEN <<>>
    ELSE <<"array element">> \o Head(options) \o arrayValue(Tail(options))

\* every result is reported as a postal code that was not found
courtFields_NotFound(d, result) == setValue(d, Field("ZIP_NOT_FOUND"), <<"true">>)

\* the fields the court lookup writes for a result of determineCourt
courtFields(d, result) ==
    IF result.success
    THEN LET named == setValues(d,
                 << [key |-> Field("VAR_COURTHOUSE"), value |-> result.courtName],
                    [key |-> Field("COURT_BRANCH_NAME"), value |-> result.courtName] >>)
             fullAddress == result.courtAddress
             parts == LET raw == split(fullAddress)
                      IN  [ i \in 1..Len(raw) |-> trim(raw[i]) ]
             street == IF Len(parts) >= 3 THEN join(SubSeq(parts, 1, Len(parts) - 2))
                       ELSE IF Len(parts) = 2 THEN parts[1]
                       ELSE fullAddress
             cityZip == IF Len(parts) >= 3
                        THEN parts[Len(parts) - 1] \o <<",", " ">> \o parts[Len(parts)]
                        ELSE IF Len(parts) = 2 THEN parts[2]
                        ELSE <<>>
         IN  IF fullAddress # <<>>
             THEN setValues(named,
                    << [key |-> Field("VAR_COURT_INFO"), value |-> fullAddress],
                       [key |-> Field("COURT_DISTRICT"), value |-> result.courtDistrict],
                       [key |-> Field("COURT_STREET_ADDRESS"), value |-> street],
                       [key |-> Field("COURT_MAILING_ADDRESS"), value |-> street],
                       [key |-> Field("COURT_CITY_ZIP"), value |-> cityZip] >>)
             ELSE named
    ELSE IF "needsSelection" \in DOMAIN result
    THEN setValues(d,
           << [key |-> Field("NEED_COURT_SELECTION"), value |-> <<"true">>],
              [key |-> Field("COURT_OPTIONS"), value |-> arrayValue(result.options)] >>)
    ELSE setValue(d, Field("ZIP_NOT_FOUND"), <<"true">>)

\* the mailing address is 'Same as street address' when it is missing or is
\* the street address
courtMailing(d) ==
    LET courtStreet  == trim(toLowerCase(fieldOr(d, "COURT_STREET_ADDRESS")))
        mailing      == trim(toLowerCase(fieldOr(d, "COURT_MAILING_ADDRESS")))
    IN  IF mailing = <<>> \/ mailing = courtStreet
        THEN setValue(d, Field("COURT_MAILING_ADDRESS"), <<"Same as street address">>)
        ELSE d

\* data['[DEMAND_AMOUNT]'] || data['[JUDGMENT_TOTAL_AMOUNT]'] || ''
amountField(d) ==
    IF fieldOr(d, "DEMAND_AMOUNT") # <<>> THEN fieldOr(d, "DEMAND_AMOUNT")
    ELSE fieldOr(d, "JUDGMENT_TOTAL_AMOUNT")

\* IS_LIMITED and IS_UNLIMITED
limited(d) ==
    LET demand == amountField(d)
        amount == IF demand # <<>> THEN parseFloat(cleanAmount(demand)) ELSE zeroAmount
    IN  IF demand # <<>> /\ ~amount.nan
        THEN IF atMostLimitedCeiling(amount)
             THEN setValues(d,
                    << [key |-> Field("IS_LIMITED"), value |-> <<"true">>],
                       [key |-> Field("IS_UNLIMITED"), value |-> <<"false">>],
                       [key |-> Field("VAR_UNLIMITED_OR_LIMITED"),
                        value |-> <<"Limited Civil Case">>] >>)
             ELSE setValues(d,
                    << [key |-> Field("IS_UNLIMITED"), value |-> <<"true">>],
                       [key |-> Field("IS_LIMITED"), value |-> <<"false">>],
                       [key |-> Field("VAR_UNLIMITED_OR_LIMITED"),
                        value |-> <<"Unlimited Civil Case">>] >>)
        ELSE setValues(d,
               << [key |-> Field("IS_LIMITED"), value |-> <<"false">>],
                  [key |-> Field("IS_UNLIMITED"), value |-> <<"false">>],
                  [key |-> Field("VAR_UNLIMITED_OR_LIMITED"), value |-> <<>>] >>)

\* ------------------------------------------------------------------------
\* toTitleCase and the case name
\* ------------------------------------------------------------------------
\* str.split(/\s+/)
RECURSIVE splitWhitespace(_)
splitWhitespace(s) ==
    IF \E i \in 1..Len(s) : s[i] \in Whitespace
    THEN LET i == CHOOSE k \in 1..Len(s) :
                     s[k] \in Whitespace /\ \A j \in 1..(k - 1) : s[j] \notin Whitespace
         IN  << SubSeq(s, 1, i - 1) >> \o splitWhitespace(trimStart(SubSeq(s, i, Len(s))))
    ELSE << s >>

\* words.join(' ')
RECURSIVE joinWords(_)
joinWords(words) ==
    IF words = <<>> THEN <<>>
    ELSE IF Len(words) = 1 THEN words[1]
    ELSE words[1] \o <<" ">> \o joinWords(Tail(words))

smallWords ==
    { <<"o", "f">>,
      <<"t", "h", "e">>,
      <<"a", "n", "d">>,
      <<"a">>,
      <<"a", "n">>,
      <<"i", "n">>,
      <<"o", "n">>,
      <<"a", "t">>,
      <<"t", "o">>,
      <<"f", "o", "r">>,
      <<"w", "i", "t", "h">> }

acronyms == { <<"L", "L", "P">>,
              <<"L", "L", "C">>,
              <<"P", "C">>,
              <<"U", "S", "A">>,
              <<"I", "N", "C">>,
              <<"L", "T", "D">>,
              <<"C", "O", "R", "P">> }

\* [a-zA-Z0-9]
IsAlphanumeric(c) ==
    \/ IsDigit(c)
    \/ \E i \in 1..Len(LowerLetters) : LowerLetters[i] = c \/ UpperLetters[i] = c

\* word.charAt(0).toUpperCase() + word.slice(1), but for the small words
\* after the first word
capitalized(word, index) ==
    IF index > 0 /\ word \in smallWords THEN word
    ELSE IF word = <<>> THEN word
    ELSE << toUpperCaseChar(word[1]) >> \o Tail(word)

\* the word without its punctuation in upper case when that is an acronym
forcedAcronym(word) ==
    LET cleanWord == toUpperCase(SelectSeq(word, IsAlphanumeric))
    IN  IF cleanWord \in acronyms THEN cleanWord ELSE word

\* title case without the acronyms
toTitleCase_NoAcronyms(str) ==
    IF str = <<>> THEN str
    ELSE LET words == splitWhitespace(toLowerCase(str))
         IN  joinWords([ i \in 1..Len(words) |-> capitalized(words[i], i - 1) ])

toTitleCase(str) ==
    IF str = <<>> THEN str
    ELSE LET words == splitWhitespace(toLowerCase(str))
         IN  joinWords([ i \in 1..Len(words) |-> forcedAcronym(capitalized(words[i], i - 1)) ])

\* the alternatives of the legal-entity suffix, in lower case
entitySuffixes ==
    { <<"a", "n", " ", "i", "n", "d", "i", "v", "i", "d", "u", "a", "l">>,
      <<"a", " ", "c", "o", "r", "p", "o", "r", "a", "t", "i", "o", "n">>,
      <<"a", " ", "l", "i", "m", "i", "t", "e", "d", " ", "l", "i", "a", "b", "i", "l", "i", "t", "y", " ", "c", "o", "m", "p", "a", "n", "y">>,
      <<"a", "n", " ", "l", "l", "c">>,
      <<"a", " ", "p", "a", "r", "t", "n", "e", "r", "s", "h", "i", "p">>,
      <<"a", " ", "s", "o", "l", "e", " ", "p", "r", "o", "p", "r", "i", "e", "t", "o", "r", "s", "h", "i", "p">>,
      <<"e", "t", "c">>,
      <<"e", "t", "c", ".">> }

\* replace(/,\s*(an individual|a corporation|...|etc\.?)$/i, '')
stripEntitySuffix(s) ==
    LET cuts == { i \in 1..Len(s) :
                    /\ s[i] = ","
                    /\ toLowerCase(trimStart(SubSeq(s, i + 1, Len(s)))) \in entitySuffixes }
    IN  IF cuts = {} THEN s
        ELSE SubSeq(s, 1, (CHOOSE i \in cuts : \A j \in cuts : i <= j) - 1)

\* VAR_CASE_NAME and its copies
caseName(d) ==
    LET plaintiffName == fieldOr(d, "PLAINTIFF_NAME")
        defendantNameForCase == fieldOr(d, "DEFENDANT_NAME")
        formattedPlaintiff == toTitleCase(plaintiffName)
        cleanDefendant == trim(stripEntitySuffix(defendantNameForCase))
        formattedDefendant == toTitleCase(cleanDefendant)
        name == formattedPlaintiff \o <<" ", "v", ".", " ">> \o formattedDefendant
                    \o <<",", " ", "e", "t", " ", "a", "l", ".">>
    IN  IF plaintiffName # <<>> /\ defendantNameForCase # <<>>
        THEN setValues(d, << [key |-> Field("VAR_CASE_NAME"), value |-> name],
                             [key |-> Field("CASE_NAME2"), value |-> name],
                             [key |-> Field("CASE_NAME3"), value |-> name],
                             [key |-> Field("CASE_NAME4"), value |-> name],
                             [key |-> Field("CASE_NAME5"), value |-> name] >>)
        ELSE d

\* the rules that write what DerivedDefaults holds for them when the data has
\* none of the fields they read
DefaultRules == { "unknownFlags", "judgmentCreditor", "stay", "certifiedAbstract" }

\* every default at once
defaultsOf_All(name) == DerivedDefaults

defaultsOf(name) ==
    SelectSeq(DerivedDefaults,
              LAMBDA e : \E w \in PipelineRules[ruleIndex(name)].writes : e.key = Field(w))

\* a rule other than the court lookup on data that holds, of the fields the
\* pipeline reads, only the amounts, the debtor's postal code and the selection
applyRule(name, d) ==
    IF name = "globalSanitization" THEN globalSanitization(d)
    ELSE IF name = "courtMailing" THEN courtMailing(d)
    ELSE IF name = "limited" THEN limited(d)
    ELSE IF name = "caseName" THEN caseName(d)
    ELSE IF name \in DefaultRules THEN setValues(d, defaultsOf(name))
    ELSE d

\* the texts of amounts: 35000, digits, a fraction, a point, and characters
\* that are no part of a number
AmountPieces == { <<"3", "5", "0", "0", "0">>, <<"0">>, <<"1">>, <<".", "0", "1">>, <<".">>,
                  <<"$">>, <<",">> }

AmountTexts == { Flatten(ps) : ps \in UNION { [1..n -> AmountPieces] : n \in 0..MaxAmountPieces } }

\* the field of the data for a value, no field for the value "absent"
optionalField(name, value) ==
    IF value = <<"absent">> THEN <<>> ELSE << [key |-> Field(name), value |-> value] >>

\* the tables of the pipeline's instance: a split for Unlimited cases, one
\* court for Limited cases
PipelineCourtFiles ==
    [ rules |-> << [ ZipCode |-> <<"90001">>, CaseType |-> "Unlimited", CourtName |-> CourtX,
                     Condition |-> North, Is_Default |-> "False" ],
                   [ ZipCode |-> <<"90001">>, CaseType |-> "Unlimited", CourtName |-> CourtXY,
                     Condition |-> South, Is_Default |-> "False" ],
                   [ ZipCode |-> <<"90001">>, CaseType |-> "Limited", CourtName |-> CourtXY,
                     Condition |-> <<>>, Is_Default |-> "False" ] >>,
      info  |-> << InfoXY, InfoX >> ]

InitPipeline ==
    /\ NoRepair
    /\ normalizedData = <<>>
    /\ rendered = [status |-> "none", text |-> <<>>]
    /\ pc = "pipeline"
    /\ \E demand \in AmountTexts \cup { <<"absent">> } :
       \E judgment \in { <<"absent">>, <<"1">>, <<"3", "5", "0", "0", "0", "1">> } :
       \E zs \in { << <<"absent">>, <<"absent">> >>, << <<"90001">>, <<"absent">> >>,
                   << <<"90002">>, <<"absent">> >>, << <<"90001">>, North >> } :
          data = optionalField("DEMAND_AMOUNT", demand)
                 \o optionalField("JUDGMENT_TOTAL_AMOUNT", judgment)
                 \o optionalField("DEBTOR1_ZIP", zs[1])
                 \o optionalField("COURT_CITY_SELECTION", zs[2])
    /\ rawData = data
    /\ rule = 1
    /\ courtFiles = PipelineCourtFiles
    /\ jurisdictionRulesCache = NotSet
    /\ courtInfoCache = NotSet
    /\ zipCode = <<>>
    /\ demandAmount = <<>>
    /\ citySelection = <<>>
    /\ courtResult = [success |-> FALSE]
    /\ NoLoad
    /\ ExtIdle

\* the next rule of the pipeline; the court lookup calls determineCourt when
\* the data has the debtor's postal code
RunRule ==
    /\ pc = "pipeline"
    /\ rule <= Len(PipelineRules)
    /\ IF PipelineRules[rule].rule = "courtLookup" /\ fieldOr(data, "DEBTOR1_ZIP") # <<>>
       THEN LET loaded == loadedCourtData
                result == determineCourt(loaded.jurisdictionRules.rows, loaded.courtInfo.rows,
                                         fieldOr(data, "DEBTOR1_ZIP"), amountField(data),
                                         fieldOr(data, "COURT_CITY_SELECTION"))
            IN  /\ jurisdictionRulesCache' = loaded.jurisdictionRules
                /\ courtInfoCache' = loaded.courtInfo
                /\ zipCode' = fieldOr(data, "DEBTOR1_ZIP")
                /\ demandAmount' = amountField(data)
                /\ citySelection' = fieldOr(data, "COURT_CITY_SELECTION")
                /\ courtResult' = result
                /\ data' = courtFields(data, result)
       ELSE /\ data' = applyRule(PipelineRules[rule].rule, data)
            /\ UNCHANGED << jurisdictionRulesCache, courtInfoCache, zipCode, demandAmount,
                            citySelection, courtResult >>
    /\ rule' = rule + 1
    /\ pc' = IF rule = Len(PipelineRules) THEN "pipelined" ELSE "pipeline"
    /\ UNCHANGED << repairVars, normalizedData, rendered, courtFiles, rawData, loadVars,
                    extVars >>

NextPipeline == RunRule

SpecPipeline == InitPipeline /\ [][NextPipeline]_vars

\* ------------------------------------------------------------------------
\* loadCourtData, called by concurrent requests
\* ------------------------------------------------------------------------
Requests == 1..MaxRequests

\* the return value of loadCourtData
cachedCourtData(rulesCache, infoCache) == [ jurisdictionRules |-> rulesCache, courtInfo |-> infoCache ]

\* the contents of the two files
LoadFiles ==
    { [rules |-> rules, info |-> info] :
        rules \in { <<>>, SubSeq(PipelineCourtFiles.rules, 1, 1), PipelineCourtFiles.rules },
        info \in InfoTables }

InitLoad ==
    /\ NoRepair
    /\ data = <<>>
    /\ normalizedData = <<>>
    /\ rendered = [status |-> "none", text |-> <<>>]
    /\ pc = "load"
    /\ courtFiles \in LoadFiles
    /\ jurisdictionRulesCache = NotSet
    /\ courtInfoCache = NotSet
    /\ zipCode = <<>>
    /\ demandAmount = <<>>
    /\ citySelection = <<>>
    /\ courtResult = [success |-> FALSE]
    /\ NoPipeline
    /\ loadPc = [ r \in Requests |-> "idle" ]
    /\ loadResult = [ r \in Requests |-> cachedCourtData(NotSet, NotSet) ]
    /\ fileReads = 0
    /\ cacheAssignments = 0
    /\ ExtIdle

\* a request calls loadCourtData: up to the await when a cache is not set,
\* where the two files are asked for; else up to the return
CallLoad(r) ==
    /\ pc = "load"
    /\ loadPc[r] = "idle"
    /\ IF ~jurisdictionRulesCache.set \/ ~courtInfoCache.set
       THEN /\ loadPc' = [loadPc EXCEPT ![r] = "reading"]
            /\ fileReads' = fileReads + 1
            /\ UNCHANGED loadResult
       ELSE /\ loadPc' = [loadPc EXCEPT ![r] = "returned"]
            /\ loadResult' = [loadResult EXCEPT
                                ![r] = cachedCourtData(jurisdictionRulesCache, courtInfoCache)]
            /\ UNCHANGED fileReads
    /\ UNCHANGED << repairVars, fillVars, courtVars, pipeVars, cacheAssignments, pc,
                    extVars >>

\* the two files of a request have been read: from the await to the return
ResumeLoad(r) ==
    /\ pc = "load"
    /\ loadPc[r] = "reading"
    /\ jurisdictionRulesCache' = [set |-> TRUE, rows |-> courtFiles.rules]
    /\ courtInfoCache' = [set |-> TRUE, rows |-> courtFiles.info]
    /\ cacheAssignments' = cacheAssignments + 1
    /\ loadPc' = [loadPc EXCEPT ![r] = "returned"]
    /\ loadResult' = [loadResult EXCEPT
                        ![r] = cachedCourtData(jurisdictionRulesCache', courtInfoCache')]
    /\ UNCHANGED << repairVars, fillVars, courtFiles, zipCode, demandAmount, citySelection,
                    courtResult, pipeVars, fileReads, pc, extVars >>

NextLoad == \E r \in Requests : CallLoad(r) \/ ResumeLoad(r)

SpecLoad == InitLoad /\ [][NextLoad]_vars

\* ------------------------------------------------------------------------
\* processDynamicVariables as one step, over the tables of determineCourt
\* ------------------------------------------------------------------------
\* the court lookup when the data has the debtor's postal code
courtLookup(d, jurisdictionRules, courtInfo) ==
    IF fieldOr(d, "DEBTOR1_ZIP") # <<>>
    THEN courtFields(d, determineCourt(jurisdictionRules, courtInfo, fieldOr(d, "DEBTOR1_ZIP"),
                                       amountField(d), fieldOr(d, "COURT_CITY_SELECTION")))
    ELSE d

\* the rules from the k-th on
RECURSIVE runRules(_, _, _, _)
runRules(d, k, jurisdictionRules, courtInfo) ==
    IF k > Len(PipelineRules) THEN d
    ELSE \* the data after the k-th rule, computed before the next rule runs
         LET after == IF PipelineRules[k].rule = "courtLookup"
                      THEN courtLookup(d, jurisdictionRules, courtInfo)
                      ELSE applyRule(PipelineRules[k].rule, d)
         IN  IF Len(after) >= 0
             THEN runRules(after, k + 1, jurisdictionRules, courtInfo)
             ELSE d

\* "absent" for the empty text
presentOr(value) == IF value = <<>> THEN <<"absent">> ELSE value

\* the court-info tables of the pipeline runs: one with the court of the
\* rules twice, one without it
LookupInfoTables == { <<InfoX, InfoX2>>, <<InfoXY>> }

\* the selectors of the pipeline runs: none, a Condition, a court name, a
\* name no row has
LookupSelections == { <<>>, North, CourtX, CourtNan }

InitLookup ==
    /\ NoRepair
    /\ normalizedData = <<>>
    /\ rendered = [status |-> "none", text |-> <<>>]
    /\ pc = "lookup"
    /\ \E rules \in RuleTables : \E info \in LookupInfoTables :
          courtFiles = [rules |-> rules, info |-> info]
    /\ \E amount \in CourtAmounts : \E selection \in LookupSelections :
          data = optionalField("DEMAND_AMOUNT", presentOr(amount))
                 \o optionalField("DEBTOR1_ZIP", <<"90001">>)
                 \o optionalField("COURT_CITY_SELECTION", presentOr(selection))
    /\ rawData = data
    /\ rule = 1
    /\ jurisdictionRulesCache = NotSet
    /\ courtInfoCache = NotSet
    /\ zipCode = <<>>
    /\ demandAmount = <<>>
    /\ citySelection = <<>>
    /\ courtResult = [success |-> FALSE]
    /\ NoLoad
    /\ ExtIdle

\* one call of processDynamicVariables
ProcessDynamicVariables ==
    /\ pc = "lookup"
    /\ LET loaded == loadedCourtData
           clean  == globalSanitization(data)
       IN  /\ jurisdictionRulesCache' = loaded.jurisdictionRules
           /\ courtInfoCache' = loaded.courtInfo
           /\ zipCode' = fieldOr(clean, "DEBTOR1_ZIP")
           /\ demandAmount' = amountField(clean)
           /\ citySelection' = fieldOr(clean, "COURT_CITY_SELECTION")
           /\ courtResult' = determineCourt(loaded.jurisdictionRules.rows, loaded.courtInfo.rows,
                                            fieldOr(clean, "DEBTOR1_ZIP"), amountField(clean),
                                            fieldOr(clean, "COURT_CITY_SELECTION"))
           /\ data' = runRules(data, 1, loaded.jurisdictionRules.rows, loaded.courtInfo.rows)
    /\ rule' = Len(PipelineRules) + 1
    /\ pc' = "pipelined"
    /\ UNCHANGED << repairVars, normalizedData, rendered, courtFiles, rawData, loadVars,
                    extVars >>

NextLookup == ProcessDynamicVariables

SpecLookup == InitLookup /\ [][NextLookup]_vars

\* ------------------------------------------------------------------------
\* The case name of the pipeline, for names of a few pieces
\* ------------------------------------------------------------------------
JaneQSmith == <<"j", "a", "n", "e", " ", "q", ".", " ", "s", "m", "i", "t", "h">>
AcmeCorp == <<"A", "C", "M", "E", " ", "C", "o", "r", "p">>

NamePieces == { JaneQSmith, AcmeCorp, <<"o", "f">>, <<"l", ".", "l", ".", "p", ".">>, <<"I", "n", "c">>, <<" ", "x">> }

\* the names: pieces with a blank between them
RECURSIVE namesOf(_)
namesOf(n) ==
    IF n = 0 THEN {}
    ELSE NamePieces \cup { a \o <<" ">> \o b : a \in namesOf(n - 1), b \in NamePieces }

PlaintiffNames == namesOf(MaxNamePieces) \cup { <<"absent">> }

DefendantNames ==
    { name \o suffix :
        name \in { AcmeCorp, JaneQSmith, <<>> },
        suffix \in { <<>>, <<",", " ", "a", " ", "c", "o", "r", "p", "o", "r", "a", "t", "i", "o", "n">>, <<",", "a", "n", " ", "L", "L", "C">>, <<",", " ", " ", "E", "T", "C", ".">>, <<",", " ", "a", " ", "b", "a", "n", "k">> } }
      \cup { <<"absent">> }

InitCaseName ==
    /\ NoRepair
    /\ normalizedData = <<>>
    /\ rendered = [status |-> "none", text |-> <<>>]
    /\ NoCourt
    /\ NoLoad
    /\ ExtIdle
    /\ pc = "naming"
    /\ rule = 0
    /\ \E plaintiff \in PlaintiffNames : \E defendant \in DefendantNames :
          data = optionalField("PLAINTIFF_NAME", plaintiff)
                 \o optionalField("DEFENDANT_NAME", defendant)
    /\ rawData = data

\* the case-name rule of the pipeline on data that holds the two names
RunCaseName ==
    /\ pc = "naming"
    /\ data' = caseName(globalSanitization(data))
    /\ pc' = "named"
    /\ UNCHANGED << repairVars, normalizedData, rendered, courtVars, pipeVars, loadVars, extVars >>

NextCaseName == RunCaseName

SpecCaseName == InitCaseName /\ [][NextCaseName]_vars

\* ------------------------------------------------------------------------
\* fetchWithRetry
\* ------------------------------------------------------------------------
\* maxRetries = 3
DefaultMaxRetries == 3

\* what a fetch ends in: a response with its status, a timeout (AbortError or
\* TimeoutError), or another error
Outcomes ==
    { [kind |-> "response", status |-> st] : st \in {200, 429, 500, 503} }
        \cup { [kind |-> "timeout", status |-> 0], [kind |-> "error", status |-> 0] }

\* response.status === 503 || response.status === 429
retryStatus(o) == o.kind = "response" /\ o.status \in {429, 503}

RECURSIVE pow2(_)
pow2(n) == IF n = 0 THEN 1 ELSE 2 * pow2(n - 1)

min(a, b) == IF a <= b THEN a ELSE b

\* the delay without the cap
backoff_Uncapped(a) == 1000 * pow2(a - 1)

\* Math.min(1000 * Math.pow(2, attempt - 1), 30000)
backoff(a) == min(1000 * pow2(a - 1), 30000)

\* the loop waits after this outcome of attempt a and goes on: a 429, a 503
\* or a timeout while attempts remain, another error before the last attempt
retries(o, a, m) ==
    \/ retryStatus(o) /\ a < m
    \/ o.kind = "timeout" /\ a < m
    \/ o.kind \in {"timeout", "error"} /\ a # m

\* ends with undefined
Undefined == [kind |-> "undefined", status |-> 0]

InitRetry ==
    /\ NoRepair
    /\ data = <<>>
    /\ normalizedData = <<>>
    /\ rendered = [status |-> "none", text |-> <<>>]
    /\ NoCourt
    /\ NoPipeline
    /\ NoLoad
    /\ pc = "fetch"
    /\ maxRetries \in 0..MaxAttempts
    /\ attempt = 1
    /\ outcome = NoOutcome
    /\ delay = 0
    /\ fetches = 0
    /\ waits = 0
    /\ fetchResult = NoOutcome
    /\ HandlerIdle

\* one turn of the loop: the fetch, and what follows its outcome up to the
\* wait, the return or the throw
Fetch ==
    /\ pc = "fetch"
    /\ attempt <= maxRetries
    /\ \E o \in Outcomes :
          /\ outcome' = o
          /\ fetches' = fetches + 1
          /\ IF retries(o, attempt, maxRetries)
             THEN /\ delay' = backoff(attempt)
                  /\ waits' = waits + 1
                  /\ pc' = "waiting"
                  /\ UNCHANGED fetchResult
             ELSE /\ fetchResult' = o
                  /\ pc' = IF o.kind = "response" THEN "returned" ELSE "thrown"
                  /\ UNCHANGED << delay, waits >>
    /\ UNCHANGED << repairVars, fillVars, courtVars, pipeVars, loadVars, maxRetries, attempt,
                    handlerVars >>

\* the timer of the wait fires: the next turn of the loop
Wake ==
    /\ pc = "waiting"
    /\ attempt' = attempt + 1
    /\ delay' = 0
    /\ pc' = "fetch"
    /\ UNCHANGED << repairVars, fillVars, courtVars, pipeVars, loadVars, maxRetries, outcome,
                    fetches, waits, fetchResult, handlerVars >>

\* the loop ends without a turn left: the function returns undefined
FallThrough ==
    /\ pc = "fetch"
    /\ attempt > maxRetries
    /\ fetchResult' = Undefined
    /\ pc' = "returned"
    /\ UNCHANGED << repairVars, fillVars, courtVars, pipeVars, loadVars, maxRetries, attempt,
                    outcome, delay, fetches, waits, handlerVars >>

NextRetry == Fetch \/ Wake \/ FallThrough

SpecRetry == InitRetry /\ [][NextRetry]_vars

\* ------------------------------------------------------------------------
\* The fill requests: POST /api/fill-docx and POST /api/fill-pdf
\* ------------------------------------------------------------------------
\* the index of the next double quote of t after index p, 0 without one
closingQuote(t, p) ==
    IF \E q \in (p + 1)..Len(t) : t[q] = DQ
    THEN CHOOSE q \in (p + 1)..Len(t) : t[q] = DQ /\ \A j \in (p + 1)..(q - 1) : t[j] # DQ
    ELSE 0

SyntaxError == [ok |-> FALSE, value |-> <<>>]

\* the members of an object from index p of t on: "key":"value", then ',' and
\* more members, or '}' at the end of the text; a later value of a key
\* replaces the earlier one
RECURSIVE parseMembers(_, _, _)
parseMembers(t, p, acc) ==
    LET keyEnd == IF p <= Len(t) /\ t[p] = DQ THEN closingQuote(t, p) ELSE 0
        v      == keyEnd + 2
        valEnd == IF keyEnd # 0 /\ keyEnd + 1 <= Len(t) /\ t[keyEnd + 1] = ":"
                     /\ v <= Len(t) /\ t[v] = DQ
                  THEN closingQuote(t, v) ELSE 0
    IN  IF valEnd = 0 THEN SyntaxError
        ELSE LET members == setValue(acc, SubSeq(t, p + 1, keyEnd - 1),
                                     SubSeq(t, v + 1, valEnd - 1))
             IN  IF valEnd + 1 = Len(t) /\ t[valEnd + 1] = "}"
                 THEN [ok |-> TRUE, value |-> members]
                 ELSE IF valEnd + 1 < Len(t) /\ t[valEnd + 1] = ","
                 THEN parseMembers(t, valEnd + 2, members)
                 ELSE SyntaxError

\* every text is taken for JSON
JSONparse_Lenient(t) == [ok |-> TRUE, value |-> <<>>]

\* JSON.parse on a text without white space, escapes, numbers and nesting:
\* an object of string members, or a SyntaxError
JSONparse(t) ==
    IF t = <<"{", "}">> THEN [ok |-> TRUE, value |-> <<>>]
    ELSE IF Len(t) >= 1 /\ t[1] = "{" THEN parseMembers(t, 2, <<>>)
    ELSE SyntaxError

\* !templateName || !jsonData
missingInput(b) ==
    \/ b.templateName = <<>>
    \/ b.jsonData.kind = "string" /\ b.jsonData.text = <<>>

\* templateName.includes('..') || templateName.includes('/') || templateName.includes('\\')
invalidFilename(name) == \E i \in 1..Len(name) : name[i] \in {"..", "/", "\\"}

\* typeof jsonData === 'string' ? JSON.parse(jsonData) : jsonData
parsedBody(b) ==
    IF b.jsonData.kind = "string" THEN JSONparse(b.jsonData.text)
    ELSE [ok |-> TRUE, value |-> b.jsonData.entries]

\* name.replace(from, to): the first occurrence
replaceFirst(name, from, to) ==
    IF \E i \in 1..Len(name) : name[i] = from
    THEN LET i == CHOOSE k \in 1..Len(name) :
                     name[k] = from /\ \A j \in 1..(k - 1) : name[j] # from
         IN  SubSeq(name, 1, i - 1) \o << to >> \o SubSeq(name, i + 1, Len(name))
    ELSE name

\* the files of the templates directory
DocxName == <<"t", ".docx">>
PdfName == <<"t", ".pdf">>
DocxTemplate == << <<LDQ, "[", "a", "]", RDQ, "[", "b", "]">> >>

TemplateNames == { <<>>, DocxName, PdfName, <<"..", "/", "t", ".pdf">> }

JsonPieces == { <<"{">>, <<"}">>, <<",">>, <<DQ, "a", DQ, ":", DQ, "1", DQ>>,
                <<DQ, "a", DQ, ":", DQ>>, <<"x">> }

JsonTexts == { Flatten(ps) : ps \in UNION { [1..n -> JsonPieces] : n \in 0..MaxJsonPieces } }

JsonBodies ==
    { [kind |-> "string", text |-> t] : t \in JsonTexts }
        \cup { [kind |-> "object", entries |-> <<>>],
               [kind |-> "object", entries |-> << [key |-> <<"a">>, value |-> <<"2">>] >>] }

\* a PDF made from a template and data, editable or flattened
pdfOf(name, d, flat) == [set |-> TRUE, template |-> name, data |-> d, flattened |-> flat]

\* what is stored from an earlier fill
EarlierPdf == pdfOf(<<"earlier", ".pdf">>, <<>>, FALSE)
EarlierStores ==
    { [filled |-> NotStored, court |-> NotStored, name |-> NotStored],
      [filled |-> EarlierPdf,
       court  |-> pdfOf(<<"earlier", ".pdf">>, <<>>, TRUE),
       name   |-> [set |-> TRUE, text |-> <<"earlier", "_filled.pdf">>]] }

\* how the PDF library fares with the template
PdfOutcomes == { "ok", "invalid", "loadError", "saveError", "flattenError" }

InitRequest ==
    /\ xmlContent = DocxTemplate
    /\ firstContent = xmlContent
    /\ pass = 1
    /\ nodes = xmlContent
    /\ fullText = <<>>
    /\ textMap = <<>>
    /\ matches = <<>>
    /\ sortedMatches = <<>>
    /\ mi = 0
    /\ variables = {}
    /\ repairedXml = <<>>
    /\ deleted = <<>>
    /\ oracleNodes = xmlContent
    /\ data = <<>>
    /\ normalizedData = <<>>
    /\ rendered = [status |-> "none", text |-> <<>>]
    /\ NoCourt
    /\ NoPipeline
    /\ NoLoad
    /\ NoRetry
    /\ pc = "body"
    /\ \E name \in TemplateNames : \E json \in JsonBodies :
          body = [templateName |-> name, jsonData |-> json]
    /\ response = NoResponse
    /\ stages = <<>>
    /\ NoPdf
    /\ \E stored \in EarlierStores :
          /\ currentFilledPDF = stored.filled
          /\ currentCourtReadyPDF = stored.court
          /\ currentPDFName = stored.name

\* the request is answered with an error before any work
Reject(status, error) ==
    /\ response' = [status |-> status, error |-> error]
    /\ stages' = <<>>
    /\ UNCHANGED << repairedXml, fillVars, storeVars >>

\* POST /api/fill-docx, from the body of the request
FillDocxRequest ==
    /\ pc = "body"
    /\ pc' = "answered"
    /\ IF missingInput(body)
       THEN Reject(400, "Template name and JSON data are required")
       ELSE IF invalidFilename(body.templateName)
       THEN Reject(400, "Invalid filename")
       ELSE IF ~parsedBody(body).ok
       THEN Reject(400, "Invalid JSON format")
       ELSE LET sanitized == sanitizeAllValues(parsedBody(body).value)
                processed == processDynamicVariables(sanitized)
                zip       == repairDocxZip(xmlContent)
                filled    == render(zip, normalizeDocxData(processed))
            IN  /\ data' = processed
                /\ normalizedData' = normalizeDocxData(processed)
                /\ IF body.templateName # DocxName
                   THEN /\ stages' = <<"sanitize", "pipeline", "normalize", "readTemplate">>
                        /\ response' = [status |-> 500, error |-> "Failed to fill DOCX"]
                        /\ UNCHANGED << repairedXml, rendered >>
                   ELSE /\ stages' = <<"sanitize", "pipeline", "normalize", "readTemplate",
                                       "repair", "render">>
                        /\ repairedXml' = zip
                        /\ rendered' = filled
                        /\ response' = IF filled.status = "ok"
                                       THEN [status |-> 200, error |-> ""]
                                       ELSE [status |-> 500, error |-> "Failed to fill DOCX"]
                /\ UNCHANGED storeVars
    /\ UNCHANGED << pass, firstContent, xmlContent, nodes, fullText, textMap, matches,
                    sortedMatches, mi, variables, deleted, oracleNodes, courtVars, pipeVars,
                    loadVars, retryVars, body, pdfVars >>

\* POST /api/fill-pdf, from the body of the request, when no other request
\* runs
FillPdfRequest ==
    /\ pc = "body"
    /\ pc' = "answered"
    /\ IF missingInput(body)
       THEN Reject(400, "Template name and JSON data are required")
       ELSE IF ~parsedBody(body).ok
       THEN Reject(400, "Invalid JSON format")
       ELSE LET sanitized == sanitizeAllValues(parsedBody(body).value)
                processed == processDynamicVariables(sanitized)
            IN  /\ data' = processed
                /\ UNCHANGED << normalizedData, rendered, repairedXml >>
                /\ IF body.templateName # PdfName
                   THEN /\ stages' = <<"sanitize", "pipeline", "accessTemplate">>
                        /\ response' = [status |-> 404, error |-> "Template not found"]
                        /\ UNCHANGED storeVars
                   ELSE \E o \in PdfOutcomes :
                          IF o \in {"invalid", "loadError", "saveError"}
                          THEN /\ stages' = <<"sanitize", "pipeline", "accessTemplate",
                                              "readTemplate">>
                               /\ response' = [status |-> 400, error |-> o]
                               /\ UNCHANGED storeVars
                          ELSE /\ stages' = <<"sanitize", "pipeline", "accessTemplate",
                                              "readTemplate", "fill", "save", "store">>
                               /\ response' = [status |-> 200, error |-> ""]
                               /\ currentFilledPDF' = pdfOf(body.templateName, processed, FALSE)
                               /\ currentPDFName' =
                                      [set |-> TRUE,
                                       text |-> replaceFirst(body.templateName, ".pdf",
                                                             "_filled.pdf")]
                               /\ currentCourtReadyPDF' =
                                      pdfOf(body.templateName, processed, o = "ok")
    /\ UNCHANGED << pass, firstContent, xmlContent, nodes, fullText, textMap, matches,
                    sortedMatches, mi, variables, deleted, oracleNodes, courtVars, pipeVars,
                    loadVars, retryVars, body, pdfVars >>

NextRequest == FillDocxRequest \/ FillPdfRequest

SpecRequest == InitRequest /\ [][NextRequest]_vars

\* ------------------------------------------------------------------------
\* The stored PDFs under concurrent requests: fill-pdf, auto-fill-pdf, download
\* ------------------------------------------------------------------------
PdfRequests == 1..MaxPdfRequests

PdfHandlers == { "fill-pdf", "auto-fill-pdf" }

PdfTemplates == { <<"t", ".pdf">>, <<"u", ".pdf">> }

\* the fields of the requests: each request fills in a value of its own
RequestValues == << "1", "2", "3", "4" >>

dataOf(r) == << [key |-> <<"a">>, value |-> << RequestValues[r] >>] >>

\* Buffer.from(pdfBytes) of request r
editablePdf(r) == pdfOf(pdfRequest[r].templateName, dataOf(r), FALSE)

\* Buffer.from(flattenedPdfBytes) of request r
flattenedPdf(r) == pdfOf(pdfRequest[r].templateName, dataOf(r), TRUE)

\* templateName.replace('.pdf', '_filled.pdf') of request r
filledName(r) ==
    [set |-> TRUE, text |-> replaceFirst(pdfRequest[r].templateName, ".pdf", "_filled.pdf")]

InitPdf ==
    /\ NoRepair
    /\ data = <<>>
    /\ normalizedData = <<>>
    /\ rendered = [status |-> "none", text |-> <<>>]
    /\ NoCourt
    /\ NoPipeline
    /\ NoLoad
    /\ NoRetry
    /\ NoRequest
    /\ NoStore
    /\ pc = "pdf"
    /\ pdfRequest \in [PdfRequests -> [handler : PdfHandlers, templateName : PdfTemplates]]
    /\ pdfPc = [r \in PdfRequests |-> "idle"]
    /\ pdfAnswer = [r \in PdfRequests |-> NotStored]
    /\ downloaded = [status |-> 0]

\* what the steps of the PDF handlers leave alone
PdfFrame == UNCHANGED << pc, repairVars, fillVars, courtVars, pipeVars, loadVars, retryVars,
                         requestVars, pdfRequest >>

\* the handler from its start to the await of the first pdfDoc.save(), or to
\* the response of a request that fails before the PDF is saved
PdfBegin(r) ==
    /\ pdfPc[r] = "idle"
    /\ \E ok \in BOOLEAN : pdfPc' = [pdfPc EXCEPT ![r] = IF ok THEN "saving" ELSE "failed"]
    /\ UNCHANGED << storeVars, pdfAnswer, downloaded >>
    /\ PdfFrame

\* the first save has resolved: the editable PDF and the name are stored;
\* form.flatten() throws, and the editable bytes become the court-ready PDF and
\* the response is sent, or the handler awaits the second pdfDoc.save()
PdfStore(r) ==
    /\ pdfPc[r] = "saving"
    /\ currentFilledPDF' = editablePdf(r)
    /\ currentPDFName' = filledName(r)
    /\ \E flattens \in BOOLEAN :
          IF flattens
          THEN /\ pdfPc' = [pdfPc EXCEPT ![r] = "flattening"]
               /\ UNCHANGED << currentCourtReadyPDF, pdfAnswer >>
          ELSE /\ pdfPc' = [pdfPc EXCEPT ![r] = "done"]
               /\ currentCourtReadyPDF' = editablePdf(r)
               /\ pdfAnswer' = [pdfAnswer EXCEPT ![r] = currentFilledPDF']
    /\ UNCHANGED downloaded
    /\ PdfFrame

\* the second save has resolved or thrown: the court-ready PDF is stored and
\* the response is sent with the editable PDF stored at that moment
PdfFlattened(r) ==
    /\ pdfPc[r] = "flattening"
    /\ \E saved \in BOOLEAN :
          currentCourtReadyPDF' = IF saved THEN flattenedPdf(r) ELSE editablePdf(r)
    /\ pdfPc' = [pdfPc EXCEPT ![r] = "done"]
    /\ pdfAnswer' = [pdfAnswer EXCEPT ![r] = currentFilledPDF]
    /\ UNCHANGED << currentFilledPDF, currentPDFName, downloaded >>
    /\ PdfFrame

\* GET /api/download
Download(mode) ==
    /\ pc = "pdf"
    /\ downloaded' =
          IF mode = "court"
          THEN IF ~currentCourtReadyPDF.set THEN [status |-> 404]
               ELSE [status |-> 200, mode |-> mode, pdf |-> currentCourtReadyPDF,
                     filename |-> replaceFirst(currentPDFName.text, "_filled.pdf",
                                               "_court_ready.pdf")]
          ELSE IF ~currentFilledPDF.set THEN [status |-> 404]
               ELSE [status |-> 200, mode |-> mode, pdf |-> currentFilledPDF,
                     filename |-> currentPDFName.text]
    /\ UNCHANGED << storeVars, pdfPc, pdfAnswer >>
    /\ PdfFrame

NextPdf ==
    \/ \E r \in PdfRequests : PdfBegin(r)
    \/ \E r \in PdfRequests : PdfStore(r)
    \/ \E r \in PdfRequests : PdfFlattened(r)
    \/ \E mode \in {"court", "editable"} : Download(mode)

SpecPdf == InitPdf /\ [][NextPdf]_vars

\* ------------------------------------------------------------------------
\* What the properties speak of, stated on the text and not by the scan
\* ------------------------------------------------------------------------
\* t[o..c] (0-based) is: quote, '[', identifier, ']', quote
IsPlaceholderAt(t, o, c) ==
    /\ 0 <= o /\ o + 4 <= c /\ c < Len(t)
    /\ t[o + 1] \in QuoteChars
    /\ t[o + 2] = "["
    /\ t[o + 3] \in LetterChars
    /\ \A k \in (o + 3)..(c - 1) : t[k] \in IdChars
    /\ t[c] = "]"
    /\ t[c + 1] \in QuoteChars

\* every occurrence, as << index of its open quote, index of its close quote >>
Occurrences(t) ==
    UNION { { << o, c >> : c \in { c \in (o + 4)..(Len(t) - 1) : IsPlaceholderAt(t, o, c) } }
            : o \in { o \in 0..(Len(t) - 1) : t[o + 1] \in QuoteChars } }

\* the occurrences taken left to right without overlap: an occurrence counts
\* unless an occurrence that counts reaches into it
RECURSIVE Counted(_, _)
Counted(occ, oc) ==
    \A prev \in occ : (prev[1] < oc[1] /\ oc[1] <= prev[2]) => ~Counted(occ, prev)

QuotedPlaceholders(t) ==
    LET occ == Occurrences(t) IN { oc \in occ : Counted(occ, oc) }

\* the indices of the quote characters of the quoted placeholders Q
QuoteIndices(Q) == { oc[1] : oc \in Q } \cup { oc[2] : oc \in Q }

\* t[b..e] (0-based) is '[', identifier, ']'
IsBracketTokenAt(t, b, e) ==
    /\ 0 <= b /\ b + 2 <= e /\ e < Len(t)
    /\ t[b + 1] = "["
    /\ t[b + 2] \in LetterChars
    /\ \A k \in (b + 2)..e : t[k] \in IdChars
    /\ t[e + 1] = "]"

\* the bracket tokens that are not the inside of one of the quoted placeholders Q
UnquotedBrackets(t, Q) ==
    UNION { { << b, e >> : e \in { e \in (b + 2)..(Len(t) - 1) :
                                     /\ IsBracketTokenAt(t, b, e)
                                     /\ << b - 1, e + 1 >> \notin Q } }
            : b \in { b \in 0..(Len(t) - 1) : t[b + 1] = "[" } }

\* text without the characters whose index in the whole text is in D, for a
\* text that starts at index abs of the whole text
RECURSIVE Without(_, _, _)
Without(text, abs, D) ==
    IF text = <<>> THEN <<>>
    ELSE (IF abs \in D THEN <<>> ELSE << Head(text) >>)
         \o Without(Tail(text), abs + 1, D)

\* index in the whole text at which run r of the part rs starts
RunStart(rs, r) == SumLen(SubSeq(rs, 1, r - 1))

\* the number of elements of D below i
Below(D, i) == Cardinality({ d \in D : d < i })

\* ------------------------------------------------------------------------
\* Properties of the repair
\* ------------------------------------------------------------------------
\* C1: a finished repair of a part with n quoted placeholders and m unquoted
\* bracket tokens has removed 2n characters, namely the n open and n close
\* quotes, each from the run that held it, and every unquoted bracket token
\* stands in the result character for character, for every fragmentation.
C1_RepairRemovesOnlyQuotePairs ==
    pc = "done" =>
        LET t == Flatten(xmlContent)
            Q == QuotedPlaceholders(t)
            D == QuoteIndices(Q)
            r == Flatten(repairedXml)
        IN  /\ SumLen(repairedXml) = Len(t) - 2 * Cardinality(Q)
            /\ Len(repairedXml) = Len(xmlContent)
            /\ \A i \in 1..Len(xmlContent) :
                  repairedXml[i] = Without(xmlContent[i], RunStart(xmlContent, i), D)
            /\ \A be \in UnquotedBrackets(t, Q) :
                  SubSeq(r, be[1] - Below(D, be[1]) + 1, be[2] - Below(D, be[1]) + 1)
                      = SubSeq(t, be[1] + 1, be[2] + 1)

\* C1 witness: a repaired part of several runs with a quoted placeholder whose
\* quotes lie in different runs and an unquoted bracket token
C1_Witness ==
    /\ pc = "done"
    /\ pass = 1
    /\ Len(xmlContent) >= 2
    /\ UnquotedBrackets(Flatten(xmlContent), QuotedPlaceholders(Flatten(xmlContent))) # {}
    /\ \E oc \in QuotedPlaceholders(Flatten(xmlContent)) :
          findNodeAtIndex(textMap, oc[1]).node # findNodeAtIndex(textMap, oc[2]).node
    /\ Len(deleted) >= 2

\* C2 as stated: a second repair, of the output of a first, finds no match and
\* deletes nothing, for every text
C2_SecondPassIsNoOp ==
    (pass = 2 /\ pc # "start") =>
        /\ matches = <<>>
        /\ deleted = <<>>
        /\ nodes = xmlContent
        /\ (pc = "done" => repairedXml = xmlContent)

\* a quoted placeholder of t that stands between two further quote glyphs which
\* the repair does not delete
EnclosedPlaceholder(t) ==
    LET Q == QuotedPlaceholders(t)
        D == QuoteIndices(Q)
    IN  \E oc \in Q :
          /\ oc[1] >= 1 /\ t[oc[1]] \in QuoteChars /\ (oc[1] - 1) \notin D
          /\ oc[2] + 1 < Len(t) /\ t[oc[2] + 2] \in QuoteChars /\ (oc[2] + 1) \notin D

\* C2 as amended: the second repair is a no-op exactly when no quoted
\* placeholder of the first text stands between two further quote glyphs that
\* the first repair leaves; where one does, the first repair leaves it quoted
\* and the second repair matches it.
C2_SecondPassNoOpUnlessEnclosed ==
    (pass = 2 /\ pc # "start") =>
        IF EnclosedPlaceholder(Flatten(firstContent))
        THEN matches # <<>>
        ELSE /\ matches = <<>>
             /\ deleted = <<>>
             /\ nodes = xmlContent
             /\ (pc = "done" => repairedXml = xmlContent)

\* C2 witness: a second repair has finished on a text whose first repair
\* removed quotes and left other quote glyphs behind
C2_Witness ==
    /\ pass = 2
    /\ pc = "done"
    /\ matches = <<>>
    /\ ~EnclosedPlaceholder(Flatten(firstContent))
    /\ SumLen(xmlContent) < SumLen(firstContent)
    /\ \E i \in 1..Len(fullText) : fullText[i] \in QuoteChars

\* C3: a part without any occurrence of quote, '[', identifier, ']', quote is
\* never mutated and is returned as it came.
C3_NoPlaceholderNoChange ==
    Occurrences(Flatten(xmlContent)) = {} =>
        /\ nodes = xmlContent
        /\ deleted = <<>>
        /\ (pc = "done" => repairedXml = xmlContent)

\* C3 witness: a returned part with quote glyphs and a bracket token, but no
\* quoted placeholder
C3_Witness ==
    /\ pc = "done"
    /\ pass = 1
    /\ Occurrences(Flatten(xmlContent)) = {}
    /\ UnquotedBrackets(Flatten(xmlContent), {}) # {}
    /\ \E i \in 1..Len(fullText) : fullText[i] \in QuoteChars
    /\ repairedXml = xmlContent

\* C4: at every step the runs equal the runs of the oracle that applies the
\* same deletions, each against a map rebuilt from the runs as they then are.
C4_SameAsRebuildingOracle == nodes = oracleNodes

\* C4 witness: a finished repair of several runs in which one run held quote
\* characters of two matches
C4_Witness ==
    /\ pc = "done"
    /\ Len(xmlContent) >= 2
    /\ \E i, j \in 1..Len(deleted) :
          /\ i + 2 <= j
          /\ deleted[i].found /\ deleted[j].found
          /\ deleted[i].node = deleted[j].node
    /\ nodes # xmlContent

\* C5: the matches are processed by descending close-quote index, close quote
\* before open quote, so the indices of the deletions of a repair strictly
\* decrease.
C5_DeletionsStrictlyDescending ==
    /\ \A i \in 1..Len(deleted) : \A j \in 1..Len(deleted) :
          i < j => deleted[i].index > deleted[j].index
    /\ \A k \in 1..Len(sortedMatches) :
          /\ 2 * k - 1 <= Len(deleted) => deleted[2 * k - 1].index = sortedMatches[k].closeQuoteIndex
          /\ 2 * k <= Len(deleted) => deleted[2 * k].index = sortedMatches[k].openQuoteIndex
          /\ k > 1 => sortedMatches[k - 1].closeQuoteIndex > sortedMatches[k].closeQuoteIndex

\* C5 witness: a repair that has deleted the quotes of three matches
C5_Witness == pc = "done" /\ Len(deleted) = 6

\* the ranges of the map lie end to end from 0
RangesContiguous ==
    \A i \in 1..Len(textMap) :
        /\ textMap[i].startIndex = (IF i = 1 THEN 0 ELSE textMap[i - 1].endIndex)
        /\ textMap[i].startIndex <= textMap[i].endIndex

\* C6 as stated: at every point of the repair the ranges lie end to end from 0
\* and each range is as long as the current text of its run
C6_RangesPartitionCurrentText ==
    pc # "start" =>
        /\ RangesContiguous
        /\ \A i \in 1..Len(textMap) :
              textMap[i].endIndex - textMap[i].startIndex = Len(nodes[textMap[i].node])

\* C6 as amended: the ranges are those of buildTextMap throughout: they lie end
\* to end over the text of the snapshot, each as long as its run was when the
\* map was built, which is the run's current length plus the number of
\* characters deleted from that run; the entry's text is the run's current text.
C6_RangesPartitionSnapshotText ==
    pc # "start" =>
        /\ RangesContiguous
        /\ Len(textMap) = Len(nodes)
        /\ (IF textMap = <<>> THEN 0 ELSE textMap[Len(textMap)].endIndex) = Len(fullText)
        /\ \A i \in 1..Len(textMap) :
              /\ textMap[i].node = i
              /\ textMap[i].text = nodes[i]
              /\ textMap[i].endIndex - textMap[i].startIndex = Len(xmlContent[i])
              /\ textMap[i].endIndex - textMap[i].startIndex
                    = Len(nodes[i])
                      + Cardinality({ k \in 1..Len(deleted) :
                                        deleted[k].found /\ deleted[k].node = i })

\* C6 witness: after the last deletion a range is longer than its run's text
C6_Witness ==
    /\ pc = "serialize"
    /\ Len(textMap) >= 2
    /\ \E i \in 1..Len(textMap) :
          textMap[i].endIndex - textMap[i].startIndex > Len(textMap[i].text)

\* the upper-case letter of each lower-case letter
CasePairs == { << "a", "A" >>, << "b", "B" >> }

\* name is the identifier id in upper case
IsUpperCaseOf(name, id) ==
    /\ Len(name) = Len(id)
    /\ \A k \in 1..Len(id) :
          IF \E pr \in CasePairs : pr[1] = id[k]
          THEN << id[k], name[k] >> \in CasePairs
          ELSE name[k] = id[k]

\* C7: the matcher returns exactly the left-to-right non-overlapping
\* occurrences of quote, '[', identifier, ']', quote, in order, each with the
\* index of its open quote, closeQuoteIndex = openQuoteIndex + length of the
\* identifier + 3, and the identifier in upper case; nothing else is returned.
C7_MatcherFindsExactlyQuotedPlaceholders ==
    pc = "scanned" =>
        LET Q == QuotedPlaceholders(fullText)
        IN  /\ Len(matches) = Cardinality(Q)
            /\ \A i \in 1..Len(matches) :
                  LET m  == matches[i]
                      id == SubSeq(fullText, m.openQuoteIndex + 3, m.closeQuoteIndex - 1)
                  IN  /\ << m.openQuoteIndex, m.closeQuoteIndex >> \in Q
                      /\ fullText[m.openQuoteIndex + 1] \in QuoteChars
                      /\ fullText[m.closeQuoteIndex + 1] \in QuoteChars
                      /\ m.openQuoteChar = fullText[m.openQuoteIndex + 1]
                      /\ m.closeQuoteChar = fullText[m.closeQuoteIndex + 1]
                      /\ m.closeQuoteIndex = m.openQuoteIndex + Len(m.varName) + 3
                      /\ IsUpperCaseOf(m.varName, id)
                      /\ i > 1 => matches[i - 1].closeQuoteIndex < m.openQuoteIndex

\* C7 witness: a scan that returned a match with different quote glyphs and a
\* lower-case identifier, and left out an occurrence that shares its quote
C7_Witness ==
    /\ pc = "scanned"
    /\ Len(matches) >= 1
    /\ \E i \in 1..Len(matches) :
          /\ matches[i].openQuoteChar # matches[i].closeQuoteChar
          /\ matches[i].varName
                # SubSeq(fullText, matches[i].openQuoteIndex + 3, matches[i].closeQuoteIndex - 1)
    /\ Cardinality(Occurrences(fullText)) > Len(matches)

\* ------------------------------------------------------------------------
\* Properties of the repair followed by the substitution
\* ------------------------------------------------------------------------
\* every bracket token of t, as << index of '[', index of ']' >>
BracketTokens(t) ==
    UNION { { << b, e >> : e \in { e \in (b + 2)..(Len(t) - 1) : IsBracketTokenAt(t, b, e) } }
            : b \in { b \in 0..(Len(t) - 1) : t[b + 1] = "[" } }

TokenName(t, be) == SubSeq(t, be[1] + 2, be[2])

\* the names the bracket tokens of a template can have
TokenNames == { <<"a">>, <<"b">> }

\* the number of the tokens T of t that are named name
CountNamed(t, T, name) == Cardinality({ be \in T : TokenName(t, be) = name })

\* C8: in fill-docx a bracket token that is not enclosed in quotes in the
\* template is never substituted: for every field map, with or without a value
\* for its name, the output holds at least as many tokens [NAME] as the
\* template holds unquoted tokens [NAME].
C8_UnquotedBracketsSurviveFill ==
    pc = "filled" =>
        LET t == Flatten(xmlContent)
            U == UnquotedBrackets(t, QuotedPlaceholders(t))
        IN  /\ rendered.status = "ok"
            /\ \A name \in TokenNames :
                  CountNamed(rendered.text, BracketTokens(rendered.text), name)
                     >= CountNamed(t, U, name)

\* x and y are the same name but for the case of their letters
SameIgnoringCase(x, y) ==
    /\ Len(x) = Len(y)
    /\ \A k \in 1..Len(x) :
          \/ x[k] = y[k]
          \/ << x[k], y[k] >> \in CasePairs
          \/ << y[k], x[k] >> \in CasePairs

\* C10: names are case-insensitive across repair and substitution: when every
\* bracket token of the template is a quoted placeholder, fill-docx leaves no
\* token in the output whose name is, but for letter case, a key of the
\* canonical field map.
C10_NamesAreCaseInsensitive ==
    (pc = "filled" /\ UnquotedBrackets(Flatten(xmlContent),
                                       QuotedPlaceholders(Flatten(xmlContent))) = {}) =>
        /\ rendered.status = "ok"
        /\ \A be \in BracketTokens(rendered.text) :
              \A i \in 1..Len(normalizedData) :
                 ~SameIgnoringCase(normalizedData[i].key, TokenName(rendered.text, be))

\* the text t from index p on with each of its tokens T replaced by the value
\* the field map has for its name, and kept where the field map has none
RECURSIVE Substituted(_, _, _, _)
Substituted(t, p, T, fields) ==
    IF p >= Len(t) THEN <<>>
    ELSE IF \E be \in T : be[1] = p
    THEN LET be == CHOOSE x \in T : x[1] = p
         IN  (IF \E i \in 1..Len(fields) : fields[i].key = TokenName(t, be)
              THEN fields[CHOOSE i \in 1..Len(fields) : fields[i].key = TokenName(t, be)].value
              ELSE SubSeq(t, be[1] + 1, be[2] + 1))
             \o Substituted(t, be[2] + 1, T, fields)
    ELSE << t[p + 1] >> \o Substituted(t, p + 1, T, fields)

\* C9: in both handlers the substitution succeeds, every token [NAME] of the
\* repaired text whose NAME has no entry in the canonical field map is in the
\* output as the literal [NAME], every token whose NAME has an entry is
\* replaced by the entry's value, and the rest of the text is as it was.
C9_MissingNamesPassThrough ==
    pc \in {"filled", "previewed"} =>
        LET r == Flatten(repairedXml)
            T == BracketTokens(r)
        IN  /\ rendered.status = "ok"
            /\ rendered.text = Substituted(r, 0, T, normalizedData)
            /\ \A name \in TokenNames :
                  ~(\E i \in 1..Len(normalizedData) : normalizedData[i].key = name) =>
                     CountNamed(rendered.text, BracketTokens(rendered.text), name)
                        = CountNamed(r, T, name)

\* C9 witness: a fill whose repaired text has a token with an entry and a
\* token without one
C9_Witness ==
    /\ pc = "filled"
    /\ LET r == Flatten(repairedXml)
           T == BracketTokens(r)
       IN  /\ \E be \in T : \E i \in 1..Len(normalizedData) :
                 normalizedData[i].key = TokenName(r, be)
           /\ \E be \in T : \A i \in 1..Len(normalizedData) :
                 normalizedData[i].key # TokenName(r, be)
           /\ rendered.text # r

\* ------------------------------------------------------------------------
\* Properties of the key normalization
\* ------------------------------------------------------------------------
\* the canonical name of a key: the key without its first and its last
\* character when these are '[' and ']', the key itself otherwise
CanonicalName(key) ==
    IF Len(key) >= 2 /\ Head(key) = "[" /\ key[Len(key)] = "]"
    THEN [ i \in 1..(Len(key) - 2) |-> key[i + 1] ]
    ELSE key

\* the place of the last field of d whose key has the canonical name name
LastSpelling(d, name) ==
    CHOOSE j \in 1..Len(d) :
        /\ CanonicalName(d[j].key) = name
        /\ \A k \in (j + 1)..Len(d) : CanonicalName(d[k].key) # name

\* C11: normalizeDocxData strips one leading '[' and one trailing ']' from a
\* key that has both and keeps any other key; the output has exactly one entry
\* per stripped name, and its value is that of the last input field with that
\* name.
C11_NormalizedKeysUniqueLastWins ==
    pc = "normalized" =>
        /\ \A i, j \in 1..Len(normalizedData) :
              i # j => normalizedData[i].key # normalizedData[j].key
        /\ { normalizedData[i].key : i \in 1..Len(normalizedData) }
              = { CanonicalName(data[j].key) : j \in 1..Len(data) }
        /\ \A i \in 1..Len(normalizedData) :
              normalizedData[i].value
                 = data[LastSpelling(data, normalizedData[i].key)].value

\* C11 witness: two spellings of one name with different values were
\* normalized to one entry
C11_Witness ==
    /\ pc = "normalized"
    /\ Len(normalizedData) < Len(data)
    /\ \E i, j \in 1..Len(data) :
          /\ i < j
          /\ data[i].key = <<"[">> \o data[j].key \o <<"]">>
          /\ data[i].value # data[j].value

\* ------------------------------------------------------------------------
\* Properties of the court resolver
\* ------------------------------------------------------------------------
\* the amounts of the resolver's instance that are Limited
LimitedAmounts == { <<"1", "0", "0">> }

QueriedCaseType == IF demandAmount \in LimitedAmounts THEN "Limited" ELSE "Unlimited"

\* the rows of the rule table for the postal code and case type asked for
MatchingRows ==
    SelectSeq(courtFiles.rules,
              LAMBDA row : row.ZipCode = zipCode /\ row.CaseType = QueriedCaseType)

IsResolved(r) == r.success

IsNeedsSelection(r) == ~r.success /\ "needsSelection" \in DOMAIN r

IsNotFound(r) == ~r.success /\ "needsSelection" \notin DOMAIN r

\* C12: with several matching rows of which one has a Condition, the result is
\* a split NeedsSelection when there is no selector or no row has the selector
\* as its Condition, and otherwise Resolved with the court of the first row
\* whose Condition is the selector.
C12_SplitNeedsOrFollowsSelector ==
    LET M == MatchingRows
    IN  (pc = "determined" /\ Len(M) >= 2 /\ \E i \in 1..Len(M) : M[i].Condition # <<>>) =>
            IF citySelection = <<>> \/ \A i \in 1..Len(M) : M[i].Condition # citySelection
            THEN /\ IsNeedsSelection(courtResult)
                 /\ courtResult.type = "split"
            ELSE /\ IsResolved(courtResult)
                 /\ \E i \in 1..Len(M) :
                       /\ M[i].Condition = citySelection
                       /\ \A j \in 1..(i - 1) : M[j].Condition # citySelection
                       /\ courtResult.courtName = M[i].CourtName

\* C12 witness: rows North and South, and the selector South resolved the
\* South row
C12_Witness ==
    LET M == MatchingRows
    IN  /\ pc = "determined"
        /\ Len(M) = 2
        /\ M[1].Condition = North /\ M[2].Condition = South
        /\ citySelection = South
        /\ IsResolved(courtResult)
        /\ courtResult.courtName = M[2].CourtName
        /\ M[1].CourtName # M[2].CourtName

\* C13: the options of a split are the distinct non-blank Conditions of the
\* matching rows: no option is blank and no option is there twice.
C13_SplitOptionsDistinct ==
    (pc = "determined" /\ IsNeedsSelection(courtResult) /\ courtResult.type = "split") =>
        LET M == MatchingRows
            options == courtResult.options
        IN  /\ \A i \in 1..Len(options) : options[i] # <<>>
            /\ \A i, j \in 1..Len(options) : i # j => options[i] # options[j]
            /\ { options[i] : i \in 1..Len(options) }
                  = { M[i].Condition : i \in 1..Len(M) } \ { <<>> }

\* C14: a Resolved result never carries a blank or 'nan' court name, also
\* when a selector chose one of several matching rows.
C14_ResolvedHasCourtName ==
    (pc = "determined" /\ IsResolved(courtResult)) =>
        /\ courtResult.courtName # <<>>
        /\ courtResult.courtName # CourtNan

\* C15: with several matching rows, none with a Condition, and no selector
\* that is a row's court name, the result is a choice NeedsSelection whose
\* options are the court names of the matching rows in table order and whose
\* defaultOption is the court name of the first flagged row, or the first
\* option when no row is flagged; defaultOption is one of the options.
C15_ChoiceOptionsAndDefault ==
    LET M == MatchingRows
    IN  ( /\ pc = "determined"
          /\ Len(M) >= 2
          /\ \A i \in 1..Len(M) : M[i].Condition = <<>>
          /\ (citySelection = <<>> \/ \A i \in 1..Len(M) : M[i].CourtName # citySelection) ) =>
            /\ IsNeedsSelection(courtResult)
            /\ courtResult.type = "choice"
            /\ courtResult.options = [ i \in 1..Len(M) |-> M[i].CourtName ]
            /\ IF \E i \in 1..Len(M) : M[i].Is_Default = "True"
               THEN \E i \in 1..Len(M) :
                       /\ M[i].Is_Default = "True"
                       /\ \A j \in 1..(i - 1) : M[j].Is_Default # "True"
                       /\ courtResult.defaultOption = M[i].CourtName
               ELSE courtResult.defaultOption = M[1].CourtName
            /\ \E i \in 1..Len(courtResult.options) :
                  courtResult.options[i] = courtResult.defaultOption

\* C15 witness: a choice whose default is the second row's court, which is
\* not the first option
C15_Witness ==
    /\ pc = "determined"
    /\ IsNeedsSelection(courtResult)
    /\ courtResult.type = "choice"
    /\ Len(courtResult.options) = 2
    /\ courtResult.defaultOption = courtResult.options[2]
    /\ courtResult.defaultOption # courtResult.options[1]

\* the court names of the instance and the Courthouse spellings that are the
\* same name after trimming, lower-casing and collapsing whitespace
SameCourt == { << CourtX, <<"x">> >>, << CourtX, <<"X">> >>,
               << CourtXY, <<"X", " ", " ", "y">> >> }

\* the place of the first court-info row for the court name, 0 without one
InfoRowFor(courtName) ==
    IF \E i \in 1..Len(courtFiles.info) :
          << courtName, courtFiles.info[i].Courthouse >> \in SameCourt
    THEN CHOOSE i \in 1..Len(courtFiles.info) :
            /\ << courtName, courtFiles.info[i].Courthouse >> \in SameCourt
            /\ \A j \in 1..(i - 1) :
                  << courtName, courtFiles.info[j].Courthouse >> \notin SameCourt
    ELSE 0

\* C16: without a matching row the result is NotFound; with exactly one it is
\* NotFound when the row's court name is blank or 'nan' and otherwise Resolved
\* with that name and the address and district of the court-info row of the
\* same normalized name, empty without such a row; whatever the selector is.
C16_NoneOrSingleMatch ==
    LET M == MatchingRows
    IN  /\ (pc = "determined" /\ Len(M) = 0) => IsNotFound(courtResult)
        /\ (pc = "determined" /\ Len(M) = 1) =>
              IF M[1].CourtName = <<>> \/ M[1].CourtName = CourtNan
              THEN IsNotFound(courtResult)
              ELSE /\ IsResolved(courtResult)
                   /\ courtResult.courtName = M[1].CourtName
                   /\ LET e == InfoRowFor(M[1].CourtName)
                      IN  IF e = 0
                          THEN /\ courtResult.courtAddress = <<>>
                               /\ courtResult.courtDistrict = <<>>
                          ELSE /\ courtResult.courtAddress = courtFiles.info[e].Address
                               /\ courtResult.courtDistrict = courtFiles.info[e].District

\* C16 witness: a single matching row resolved, under a selector, to a court
\* whose court-info row spells the name in another case and spacing
C16_Witness ==
    /\ pc = "determined"
    /\ Len(MatchingRows) = 1
    /\ citySelection # <<>>
    /\ IsResolved(courtResult)
    /\ courtResult.courtName = CourtXY
    /\ courtResult.courtAddress = InfoXY.Address

\* ------------------------------------------------------------------------
\* The amount of a run of the pipeline, read as a decimal numeral
\* ------------------------------------------------------------------------
\* the text the monetary rule classifies: the demand, else the judgment total
AmountText == amountField(rawData)

\* its digits and points
AmountNumeral == SelectSeq(AmountText, LAMBDA c : IsDigit(c) \/ c = ".")

\* the index of the n-th point of the numeral, one past its end when it has
\* fewer points
PointAt(n) ==
    LET points == { i \in 1..Len(AmountNumeral) : AmountNumeral[i] = "." }
        upTo(i) == Cardinality({ j \in points : j <= i })
    IN  IF Cardinality(points) >= n
        THEN CHOOSE i \in points : upTo(i) = n
        ELSE Len(AmountNumeral) + 1

\* the digits before the first point, and those between it and the second
WholeDigits == SubSeq(AmountNumeral, 1, PointAt(1) - 1)
FractionDigits == SubSeq(AmountNumeral, PointAt(1) + 1, PointAt(2) - 1)

\* the amount is a number
AmountParsable == AmountText # <<>> /\ (WholeDigits # <<>> \/ FractionDigits # <<>>)

\* the whole part without its leading zeros
SignificantDigits ==
    LET nonZero == { i \in 1..Len(WholeDigits) : WholeDigits[i] # "0" }
    IN  IF nonZero = {} THEN <<>>
        ELSE SubSeq(WholeDigits, CHOOSE i \in nonZero : \A j \in nonZero : i <= j,
                    Len(WholeDigits))

\* the number a text of at most five digits writes
RECURSIVE NumberOf(_)
NumberOf(ds) ==
    IF ds = <<>> THEN 0
    ELSE 10 * NumberOf(SubSeq(ds, 1, Len(ds) - 1)) + digitValue(ds[Len(ds)])

AmountHasFraction == \E i \in 1..Len(FractionDigits) : FractionDigits[i] # "0"

AmountIsZero == AmountParsable /\ SignificantDigits = <<>> /\ ~AmountHasFraction

AmountAtMost35000 ==
    /\ AmountParsable
    /\ Len(SignificantDigits) <= 5
    /\ \/ NumberOf(SignificantDigits) < 35000
       \/ NumberOf(SignificantDigits) = 35000 /\ ~AmountHasFraction

AmountAbove35000 == AmountParsable /\ ~AmountAtMost35000

\* the monetary rule has run
LimitedHasRun == rule > ruleIndex("limited")

IsLimited == getValue(data, Field("IS_LIMITED")) = <<"true">>
IsUnlimited == getValue(data, Field("IS_UNLIMITED")) = <<"true">>

\* C17: once the monetary rule has run, an amount of at most 35000 has
\* IS_LIMITED true and IS_UNLIMITED false, an amount above 35000 has
\* IS_UNLIMITED true and IS_LIMITED false, an absent or unparsable amount has
\* both false; 35000 is Limited, 35000.01 is Unlimited; never both are true
C17_FlagsFollowAmount ==
    LimitedHasRun =>
        /\ hasKey(data, Field("IS_LIMITED")) /\ hasKey(data, Field("IS_UNLIMITED"))
        /\ AmountAtMost35000 => (IsLimited /\ getValue(data, Field("IS_UNLIMITED")) = <<"false">>)
        /\ AmountAbove35000 => (IsUnlimited /\ getValue(data, Field("IS_LIMITED")) = <<"false">>)
        /\ ~AmountParsable => /\ getValue(data, Field("IS_LIMITED")) = <<"false">>
                              /\ getValue(data, Field("IS_UNLIMITED")) = <<"false">>
        /\ AmountText = <<"3", "5", "0", "0", "0">> => IsLimited
        /\ AmountText = <<"3", "5", "0", "0", "0", ".", "0", "1">> => IsUnlimited
        /\ ~(IsLimited /\ IsUnlimited)

\* the pipeline has classified a demand of 35000.01 as Unlimited
C17_Witness ==
    /\ pc = "pipelined"
    /\ fieldOr(rawData, "DEMAND_AMOUNT") = <<"3", "5", "0", "0", "0", ".", "0", "1">>
    /\ IsUnlimited
    /\ ~IsLimited

\* the pipeline has classified a judgment total, the demand being absent
C17_JudgmentWitness ==
    /\ pc = "pipelined"
    /\ ~hasKey(rawData, Field("DEMAND_AMOUNT"))
    /\ fieldOr(rawData, "JUDGMENT_TOTAL_AMOUNT") = <<"1">>
    /\ IsLimited

\* the court lookup of the run has called determineCourt
ResolverHasRun == rule > ruleIndex("courtLookup") /\ zipCode # <<>>

\* C18: for every amount the pipeline classifies as Limited or Unlimited the
\* resolver filters on the same case type, and an amount the pipeline leaves
\* unclassified is Unlimited for the resolver
C18_ResolverAgreesWithPipeline ==
    (LimitedHasRun /\ ResolverHasRun) =>
        /\ IsLimited => courtResult.caseType = "limited"
        /\ IsUnlimited => courtResult.caseType = "unlimited"
        /\ (~IsLimited /\ ~IsUnlimited) => courtResult.caseType = "unlimited"

\* apart from the amounts that are zero the two classifications agree
C18_AgreeButForZero ==
    (LimitedHasRun /\ ResolverHasRun /\ ~AmountIsZero) =>
        /\ IsLimited => courtResult.caseType = "limited"
        /\ IsUnlimited => courtResult.caseType = "unlimited"
        /\ (~IsLimited /\ ~IsUnlimited) => courtResult.caseType = "unlimited"

\* a demand of 0 is Limited for the pipeline and Unlimited for the resolver
C18_ZeroWitness ==
    /\ pc = "pipelined"
    /\ ResolverHasRun
    /\ AmountText = <<"0">>
    /\ IsLimited
    /\ courtResult.caseType = "unlimited"

\* the rules that have run, and those that have not
RulesRun == 1..(rule - 1)
RulesToRun == rule..Len(PipelineRules)

\* every rule that has run read no field that a rule still to run writes
ReadsOnlyEarlierWrites ==
    \A i \in RulesRun : \A j \in RulesToRun :
        PipelineRules[i].reads \cap PipelineRules[j].writes = {}

\* every field of the data is a raw field or was written by a rule that has run
FieldsAreRawOrWritten ==
    \A e \in 1..Len(data) :
        \/ hasKey(rawData, data[e].key)
        \/ \E i \in RulesRun : \E w \in PipelineRules[i].writes : data[e].key = Field(w)

C20_TablesLoadedAtMostOnce ==
    pc = "load" => (fileReads <= 1 /\ cacheAssignments <= 1)

\* the requests that called after the caches were set read no file, and every
\* call returns the tables of the files
C20_CachedCallsReadNothing ==
    pc = "load" =>
        /\ fileReads = cacheAssignments + Cardinality({ r \in Requests : loadPc[r] = "reading" })
        /\ \A r \in Requests :
              loadPc[r] = "returned" =>
                  /\ loadResult[r].jurisdictionRules = [set |-> TRUE, rows |-> courtFiles.rules]
                  /\ loadResult[r].courtInfo = [set |-> TRUE, rows |-> courtFiles.info]

\* ------------------------------------------------------------------------
\* fetchWithRetry
\* ------------------------------------------------------------------------
RetryEnded == pc \in {"returned", "thrown"}

Retryable(o) ==
    \/ o.kind = "response" /\ o.status = 429
    \/ o.kind = "response" /\ o.status = 503
    \/ o.kind = "timeout"

\* the wait after each attempt: 1 s, doubled every time, at most 30 s
DelayTable == << 1000, 2000, 4000, 8000, 16000, 30000, 30000, 30000, 30000, 30000 >>

\* C21: fetchWithRetry makes at most maxRetries requests; after a 429, a 503
\* or a timeout with attempts remaining it waits min(1000 * 2^(attempt-1),
\* 30000) ms and goes on; after the last attempt it returns the last response
\* or throws the last error; with maxRetries >= 1 it never ends without one
C21_BoundedRetry ==
    pc \in {"fetch", "waiting", "returned", "thrown"} =>
        /\ fetches <= maxRetries
        /\ maxRetries = DefaultMaxRetries => fetches <= 3
        /\ attempt <= maxRetries + 1
        /\ waits <= fetches
        /\ (fetches >= 1 /\ Retryable(outcome) /\ fetches < maxRetries) =>
               \/ pc = "waiting" /\ attempt = fetches /\ delay = DelayTable[fetches]
               \/ pc = "fetch" /\ attempt = fetches + 1 /\ waits >= 1
        /\ pc = "waiting" => fetches < maxRetries
        /\ (fetches = maxRetries /\ maxRetries >= 1) =>
               /\ RetryEnded
               /\ fetchResult = outcome
               /\ pc = (IF outcome.kind = "response" THEN "returned" ELSE "thrown")
        /\ (RetryEnded /\ maxRetries >= 1) =>
               /\ fetches >= 1
               /\ fetchResult = outcome
               /\ fetchResult.kind \in {"response", "timeout", "error"}

\* the seventh and last attempt has timed out after six waits, the sixth of
\* 30 s, and the timeout is thrown
C21_Witness ==
    /\ pc = "thrown"
    /\ maxRetries = 7
    /\ fetches = 7
    /\ waits = 6
    /\ fetchResult.kind = "timeout"

\* the sixth attempt has ended in a 503 and the wait is the capped one
C21_CapWitness ==
    /\ pc = "waiting"
    /\ fetches = 6
    /\ outcome = [kind |-> "response", status |-> 503]
    /\ delay = 30000

\* C22: after an outcome other than a 429, a 503 or a timeout the function
\* has ended with that outcome, without a wait and without another attempt
C22_NonRetryableSurfacesAtOnce ==
    (pc \in {"fetch", "waiting", "returned", "thrown"} /\ fetches >= 1 /\ ~Retryable(outcome)) =>
        /\ RetryEnded
        /\ fetchResult = outcome
        /\ fetches = 1 => waits = 0

\* a response with another status is returned at once
C22_OtherStatusReturnedAtOnce ==
    (pc \in {"fetch", "waiting", "returned", "thrown"} /\ fetches >= 1
        /\ outcome.kind = "response" /\ ~Retryable(outcome)) =>
        /\ pc = "returned"
        /\ fetchResult = outcome

\* ------------------------------------------------------------------------
\* The case name
\* ------------------------------------------------------------------------
\* the pipeline was handed the plaintiff 'jane q. smith' and the defendant
\* 'ACME Corp, a corporation'
JaneVersusAcme ==
    /\ pc = "named"
    /\ fieldOr(rawData, "PLAINTIFF_NAME") = JaneQSmith
    /\ fieldOr(rawData, "DEFENDANT_NAME") = AcmeCorp \o <<",", " ", "a", " ", "c", "o", "r", "p", "o", "r", "a", "t", "i", "o", "n">>

CaseNameFields == { "VAR_CASE_NAME", "CASE_NAME2", "CASE_NAME3", "CASE_NAME4", "CASE_NAME5" }

\* C23 as stated: the case name of that plaintiff and defendant is
\* 'Jane Q. Smith v. Acme Corp, et al.' in all five fields
C23_CaseNameKeepsCorp ==
    JaneVersusAcme =>
        \A f \in CaseNameFields :
            fieldOr(data, f) = <<"J", "a", "n", "e", " ", "Q", ".", " ", "S", "m", "i", "t", "h", " ", "v",
                    ".", " ", "A", "c", "m", "e", " ", "C", "o", "r", "p", ",", " ", "e", "t", " ", "a", "l", ".">>

\* C23: the case name of that plaintiff and defendant is
\* 'Jane Q. Smith v. Acme CORP, et al.' in all five fields: the suffix is
\* stripped, both names are title-cased, and the word 'Corp' is upper-cased as
\* an acronym; every case name is the same in the five fields, has ' v. '
\* and ends in ', et al.'
C23_CaseNameUpperCasesCorp ==
    /\ JaneVersusAcme =>
           \A f \in CaseNameFields :
               fieldOr(data, f) = <<"J", "a", "n", "e", " ", "Q", ".", " ", "S", "m", "i", "t", "h", " ", "v",
                    ".", " ", "A", "c", "m", "e", " ", "C", "O", "R", "P", ",", " ", "e", "t", " ", "a", "l", ".">>
    /\ (pc = "named" /\ hasKey(data, Field("VAR_CASE_NAME"))) =>
           LET name == getValue(data, Field("VAR_CASE_NAME"))
           IN  /\ \A f \in CaseNameFields : fieldOr(data, f) = name
               /\ Len(name) >= 12
               /\ SubSeq(name, Len(name) - 7, Len(name)) = <<",", " ", "e", "t", " ", "a", "l", ".">>
               /\ \E i \in 1..(Len(name) - 3) : SubSeq(name, i, i + 3) = <<" ", "v", ".", " ">>
    /\ pc = "named" =>
           (hasKey(data, Field("VAR_CASE_NAME"))
               <=> (fieldOr(rawData, "PLAINTIFF_NAME") # <<>>
                       /\ fieldOr(rawData, "DEFENDANT_NAME") # <<>>))

\* the case name of that plaintiff and defendant has been written
C23_Witness ==
    /\ JaneVersusAcme
    /\ hasKey(data, Field("VAR_CASE_NAME"))
    /\ hasKey(data, Field("CASE_NAME5"))

\* ------------------------------------------------------------------------
\* One resolver call and the flags of the pipeline
\* ------------------------------------------------------------------------
\* the shapes of the three outcomes
ResolvedShape(r) ==
    /\ DOMAIN r = {"success", "courtName", "courtAddress", "courtDistrict", "caseType"}
    /\ r.success

NeedsSelectionShape(r) ==
    /\ {"success", "needsSelection", "type", "options", "caseType"} \subseteq DOMAIN r
    /\ ~r.success
    /\ r.needsSelection
    /\ r.type \in {"split", "choice"}

NotFoundShape(r) ==
    /\ DOMAIN r = {"success", "error", "caseType"}
    /\ ~r.success

\* the selector picks one of the matching rows
SelectorPicks(M) ==
    /\ citySelection # <<>>
    /\ IF \E i \in 1..Len(M) : trim(M[i].Condition) # <<>>
       THEN \E i \in 1..Len(M) : M[i].Condition = citySelection
       ELSE \E i \in 1..Len(M) : M[i].CourtName = citySelection

FlagSet(name) == hasKey(data, Field(name)) /\ getValue(data, Field(name)) = <<"true">>

\* C24: the call of determineCourt of a pipeline run ends in exactly one of
\* NotFound, Resolved and NeedsSelection; no matching row is NotFound, several
\* matching rows of which the selector picks none is NeedsSelection; the
\* pipeline sets NEED_COURT_SELECTION (with COURT_OPTIONS) for NeedsSelection,
\* ZIP_NOT_FOUND for NotFound, and VAR_COURTHOUSE for Resolved, and no other
\* of the three
C24_OneOutcomeAndItsFlag ==
    LET M == MatchingRows
        r == courtResult
    IN  (pc = "pipelined" /\ zipCode # <<>>) =>
            /\ Cardinality({ k \in {"resolved", "needs", "notfound"} :
                               \/ k = "resolved" /\ ResolvedShape(r)
                               \/ k = "needs" /\ NeedsSelectionShape(r)
                               \/ k = "notfound" /\ NotFoundShape(r) }) = 1
            /\ Len(M) = 0 => NotFoundShape(r)
            /\ (Len(M) >= 2 /\ ~SelectorPicks(M)) => NeedsSelectionShape(r)
            /\ NeedsSelectionShape(r) <=> FlagSet("NEED_COURT_SELECTION")
            /\ NeedsSelectionShape(r) =>
                   getValue(data, Field("COURT_OPTIONS")) = arrayValue(r.options)
            /\ NotFoundShape(r) <=> FlagSet("ZIP_NOT_FOUND")
            /\ ResolvedShape(r) <=> hasKey(data, Field("VAR_COURTHOUSE"))
            /\ ResolvedShape(r) => getValue(data, Field("VAR_COURTHOUSE")) = r.courtName

\* several rows match, the selector picks none, and the pipeline asks for a
\* selection
C24_Witness ==
    /\ pc = "pipelined"
    /\ Len(MatchingRows) >= 2
    /\ citySelection = CourtNan
    /\ NeedsSelectionShape(courtResult)
    /\ FlagSet("NEED_COURT_SELECTION")

\* no row matches and the pipeline reports the postal code as not found
C24_NotFoundWitness ==
    /\ pc = "pipelined"
    /\ Len(MatchingRows) = 0
    /\ NotFoundShape(courtResult)
    /\ FlagSet("ZIP_NOT_FOUND")

\* ------------------------------------------------------------------------
\* C25: the JSON of a fill request
\* ------------------------------------------------------------------------
JsonMember == <<DQ, "a", DQ, ":", DQ, "1", DQ>>

\* the members of a JSON object, n of them, with the commas between
RECURSIVE JsonMembers(_)
JsonMembers(n) == IF n = 1 THEN JsonMember ELSE JsonMembers(n - 1) \o <<",">> \o JsonMember

\* the texts of a request that are JSON by the grammar of JSON
WellFormedJson(t) ==
    \/ t = <<"{", "}">>
    \/ \E n \in 1..(MaxJsonPieces + 1) : t = <<"{">> \o JsonMembers(n) \o <<"}">>

\* the request carries a jsonData string that is not valid JSON
InvalidJsonString ==
    /\ body.jsonData.kind = "string"
    /\ body.jsonData.text # <<>>
    /\ ~WellFormedJson(body.jsonData.text)

\* C25: a fill request, fill-docx or fill-pdf, whose jsonData is a string that
\* is not valid JSON is answered with status 400 before any engine work: no
\* sanitization, pipeline, court-table load, XML repair or template read has
\* run and the stored filled PDF, court-ready PDF and file name are unchanged
C25_InvalidJsonRejectedFirst ==
    [][ (pc = "body" /\ InvalidJsonString) =>
            /\ response'.status = 400
            /\ stages' = <<>>
            /\ UNCHANGED << data, normalizedData, rendered, repairedXml, xmlContent,
                            courtVars, pipeVars, loadVars, storeVars >> ]_vars

\* a request with text that is not JSON was answered so while a PDF is stored
C25_Witness ==
    /\ pc = "answered"
    /\ InvalidJsonString
    /\ ~invalidFilename(body.templateName)
    /\ body.templateName # <<>>
    /\ response = [status |-> 400, error |-> "Invalid JSON format"]
    /\ currentFilledPDF = EarlierPdf

\* a request with JSON text went through the engine and stored its PDF
C25_ValidWitness ==
    /\ pc = "answered"
    /\ body.jsonData.kind = "string"
    /\ WellFormedJson(body.jsonData.text)
    /\ response.status = 200
    /\ currentFilledPDF = pdfOf(PdfName, data, FALSE)
    /\ hasKey(data, <<"a">>)

\* ------------------------------------------------------------------------
\* C26: the effect of one deletion step
\* ------------------------------------------------------------------------
\* the absolute index the next deletion step is made at
StepIndex ==
    IF pc = "close" THEN sortedMatches[mi].closeQuoteIndex
    ELSE sortedMatches[mi].openQuoteIndex

\* text without the character at the 0-based offset
WithoutCharAt(text, offset, shorter) ==
    /\ Len(shorter) = Len(text) - 1
    /\ \A j \in 1..offset : shorter[j] = text[j]
    /\ \A j \in (offset + 1)..Len(shorter) : shorter[j] = text[j + 1]

\* the step from this state changes run k, and its map entry, by the loss of
\* the character at the offset of the step's index in the entry's range, and
\* nothing else
DeletesOneCharOfRun(k) ==
    LET offset == StepIndex - textMap[k].startIndex
    IN  /\ StepIndex >= textMap[k].startIndex
        /\ StepIndex < textMap[k].endIndex
        /\ Len(nodes') = Len(nodes)
        /\ Len(textMap') = Len(textMap)
        /\ WithoutCharAt(nodes[k], offset, nodes'[k])
        /\ Len(textMap'[k].text) = Len(textMap[k].text) - 1
        /\ textMap'[k].text = nodes'[k]
        /\ textMap'[k].node = k
        /\ \A j \in 1..Len(nodes) : j # k =>
              /\ nodes'[j] = nodes[j]
              /\ textMap'[j] = textMap[j]

\* C26: each deletion step of the repair pass (the removal of a close quote or
\* of an open quote) removes exactly one character, at the computed local
\* offset, from exactly one run; the text recorded for that run in the text
\* map gets shorter by exactly one and equals the run's new text; the text and
\* the offsets of every other run are unchanged
C26_StepDeletesOneCharOfOneRun ==
    [][ (pc = "close" \/ pc = "open") =>
            (\E k \in 1..Len(nodes) : DeletesOneCharOfRun(k)) ]_vars

\* a deletion has been made in a part of several runs, from a run that held
\* more than the quote, not at its start
C26_Witness ==
    /\ pc = "open"
    /\ Len(nodes) >= 2
    /\ deleted # <<>>
    /\ deleted[Len(deleted)].found
    /\ deleted[Len(deleted)].localOffset >= 1
    /\ \E k \in 1..Len(nodes) :
          /\ Len(nodes[k]) + 1 = Len(xmlContent[k])
          /\ textMap[k].text = nodes[k]
          /\ textMap[k].endIndex - textMap[k].startIndex = Len(nodes[k]) + 1

\* ------------------------------------------------------------------------
\* C28: what is deleted
\* ------------------------------------------------------------------------
\* the quote indices the matcher recorded, open and close
RecordedQuoteIndices ==
    { matches[i].openQuoteIndex : i \in 1..Len(matches) }
        \cup { matches[i].closeQuoteIndex : i \in 1..Len(matches) }

\* the characters of placeholders that are not quotes
PlaceholderChars == LetterChars \cup DigitChars \cup {"_", "[", "]"}

\* the index lies in the range of an entry of the map
ResolvesToRun(index) ==
    \E k \in 1..Len(textMap) :
        index >= textMap[k].startIndex /\ index < textMap[k].endIndex

\* C28: in a repair pass every deleted character is a quote glyph and is the
\* character of the text at an index the matcher recorded as an open or close
\* quote; every quote index of every match lies in the range of a run, so
\* findNodeAtIndex finds a run for it; the 2n quote indices are pairwise
\* distinct; no letter, digit, underscore or bracket is deleted
C28_OnlyRecordedQuotesDeleted ==
    (pc \in {"close", "open", "serialize", "done"}) =>
        /\ \A i \in 1..Len(deleted) :
              /\ deleted[i].found
              /\ deleted[i].char \in QuoteChars
              /\ deleted[i].char \notin PlaceholderChars
              /\ deleted[i].index \in RecordedQuoteIndices
              /\ deleted[i].char = fullText[deleted[i].index + 1]
        /\ \A index \in RecordedQuoteIndices : ResolvesToRun(index)
        /\ Cardinality(RecordedQuoteIndices) = 2 * Len(matches)

\* a pass over several runs has deleted the quotes of two placeholders, one
\* of them from a run it shares with a bracket
C28_Witness ==
    /\ pc = "done"
    /\ Len(matches) >= 2
    /\ Len(deleted) = 2 * Len(matches)
    /\ Len(nodes) >= 2
    /\ \E i \in 1..Len(deleted) : deleted[i].localOffset >= 1

\* ------------------------------------------------------------------------
\* C27: the preview and the fill
\* ------------------------------------------------------------------------
\* C27: preview-filled-docx applies the filling logic of fill-docx: on the
\* same template and the same input fields the field map handed to the render
\* and the filled text are those of the other operation
C27_PreviewFillsAsFillDocx ==
    /\ pc = "filled" =>
          /\ normalizedData = previewFieldMap(data)
          /\ rendered = render(repairedXml, previewFieldMap(data))
    /\ pc = "previewed" =>
          /\ normalizedData = fillDocxFieldMap(data)
          /\ rendered = render(repairedXml, fillDocxFieldMap(data))

\* the texts differ: the fill has rendered a value the preview renders otherwise
C27_TextsDiffer ==
    /\ pc = "filled"
    /\ rendered.status = "ok"
    /\ render(repairedXml, previewFieldMap(data)).status = "ok"
    /\ rendered.text # render(repairedXml, previewFieldMap(data)).text

\* ------------------------------------------------------------------------
\* C29: the second call of the resolver
\* ------------------------------------------------------------------------
\* C29: when determineCourt has returned NeedsSelection and is called again
\* with the same postal code and amount and one of the returned options as
\* the selector, the result is Resolved or NotFound, never NeedsSelection
C29_SecondCallConverges ==
    pc = "reinvoked" => ~IsNeedsSelection(courtResult)

\* when the selector given is an option that is not blank the second call
\* resolves
C29_NonBlankOptionResolves ==
    (pc = "reinvoked" /\ citySelection # <<>>) => IsResolved(courtResult)

\* the second part of C29: after a NeedsSelection every matching row is the
\* row some selector resolves to
C29_EveryRowReachable ==
    (pc = "determined" /\ IsNeedsSelection(courtResult)) =>
        \A i \in 1..Len(MatchingRows) :
            \E selector \in Selections \cup {CourtXY} :
                LET again == determineCourt(jurisdictionRulesCache.rows, courtInfoCache.rows,
                                            zipCode, demandAmount, selector)
                IN  /\ IsResolved(again)
                    /\ again.courtName = MatchingRows[i].CourtName
                    /\ \/ courtResult.type = "choice"
                       \/ selector = MatchingRows[i].Condition

\* ------------------------------------------------------------------------
\* C30: the stored PDFs
\* ------------------------------------------------------------------------
\* the three stored values are those of request r
StoredFrom(r) ==
    /\ currentFilledPDF = editablePdf(r)
    /\ currentPDFName = filledName(r)
    /\ currentCourtReadyPDF \in { flattenedPdf(r), editablePdf(r) }

\* C30: under every interleaving of fill-pdf and auto-fill-pdf requests the
\* stored editable PDF, the stored court-ready PDF and the stored file name
\* come from the same fill request whenever all three are set
C30_StoredFromOneRequest ==
    (currentFilledPDF.set /\ currentCourtReadyPDF.set /\ currentPDFName.set) =>
        \E r \in PdfRequests : StoredFrom(r)

\* the stored values stay those of different requests after every request has
\* been answered
C30_MixedForGood ==
    /\ \A r \in PdfRequests : pdfPc[r] = "done"
    /\ currentCourtReadyPDF.set
    /\ currentCourtReadyPDF.template # currentFilledPDF.template

\* a download in mode court has sent a PDF made from another template than
\* the file name it was sent under
C30_CourtDownloadOfOtherDocument ==
    /\ downloaded.status = 200
    /\ downloaded.mode = "court"
    /\ downloaded.filename
          # replaceFirst(downloaded.pdf.template, ".pdf", "_court_ready.pdf")

\* the editable PDF and the file name are stored together: they are always
\* those of one request
C30_FilledAndNameTogether ==
    /\ currentFilledPDF.set <=> currentPDFName.set
    /\ currentFilledPDF.set =>
          \E r \in PdfRequests :
              currentFilledPDF = editablePdf(r) /\ currentPDFName = filledName(r)

\* a request that fails before the PDF is saved leaves the stored values
\* unchanged
C30_FailureLeavesStoreUnchanged ==
    [][ (\E r \in PdfRequests : pdfPc[r] = "idle" /\ pdfPc'[r] = "failed") =>
            UNCHANGED storeVars ]_vars

====
